---- MODULE Spec2Model ----
(***************************************************************************)
(* ai-live-transcriber: the audio-capture and cross-context messaging      *)
(* layer.  Three contexts exchange messages through chrome.runtime:        *)
(*   - the panel, running the useAudioRecording hook                       *)
(*       (src/src/hooks/useAudioRecording.ts, and the earlier revision of  *)
(*        the same hook kept in src/src/types/index.ts lines 215-392);     *)
(*   - the coordinator, the background script                              *)
(*       (src/unnamed/part_001, the revision answering START_TAB_CAPTURE,  *)
(*        and src/src/background/background.ts, the revision that captures *)
(*        inside handleStartTranscription).                                *)
(* Every await, timer, platform callback and message delivery is a step of *)
(* its own; the synchronous part of a handler, the React re-render it      *)
(* causes and the effect clean-up of that render are one step.             *)
(* A MediaStream is a handle: an index into the heap `streams`.  A message *)
(* that carries a stream carries the handle.                               *)
(***************************************************************************)
EXTENDS Naturals, Integers, Sequences, FiniteSets, TLC

(***************************** bounds **************************************)
\* streams the platform hands out in one run (getUserMedia + tabCapture)
MaxStreams == 2
\* startRecording invocations that may be pending at once
MaxPending == 2
\* non-empty chunks the recorders deliver in one run
MaxChunks == 2
\* times the user changes the language prop in one run
MaxLanguageChanges == 1
\* the same two bounds for the runs in which the coordinator takes part
MaxTabStreams == 1
MaxTabPending == 1
MaxTab2Streams == 1
MaxTab2Pending == 2
\* exchanges the listener-based startRecording opens in one run, and the
\* streams chrome.tabCapture hands out in those runs
MaxExchanges == 2
MaxListenerStreams == 1
\* the bounds of the runs of the hook with the two-step getMicrophoneStream
MaxMic2Streams == 1
MaxMic2Pending == 1
\* the messages sent to the coordinator when it runs by itself, and the
\* streams chrome.tabCapture hands out in those runs
MaxCoordStarts == 2
MaxCoordStops == 2
MaxCoordStreams == 2
MaxSettingsStarts == 1
MaxHookStarts == 1
MaxLeakStreams == 3
MaxMedia == 2
MaxTimers == 3
MaxTime == 1500
MaxPageMessages == 2
MaxLeakPending == 1
MaxHookStreams == 2
MaxHookPending == 1
MaxSettingsStreams == 1
MaxSettingsStops == 1
MaxSettingsReqs == 1
MaxAdvisories == 1

(************************ program constants ********************************)
\* setTimeout(..., 10000) of the listener-based exchange
TimeoutMs == 10000
\* confidence: 0.95, in hundredths
ConfidencePct == 95
DebounceMs == 500

Languages == {"en", "es"}

DEFAULT_SETTINGS ==
  [targetLanguage |-> "en", defaultLanguage |-> "en", llmModel |-> "whisper",
   isRecording |-> FALSE, audioSource |-> "microphone"]

\* initialData of the onInstalled handler
InitialData == [settings |-> DEFAULT_SETTINGS, transcriptions |-> <<>>, summaries |-> <<>>]

(***************************** strings *************************************)
\* A string is the sequence of its pieces; the words a caller searches for
\* (includes, startsWith) are pieces of their own.
Null == <<>>

Includes(str, word) == \E i \in DOMAIN str : str[i] = word

StartsWith(str, prefix) ==
  /\ Len(str) >= Len(prefix)
  /\ \A i \in DOMAIN prefix : str[i] = prefix[i]

ChromeScheme == <<"chrome", "://">>
ChromeExtensionScheme == <<"chrome-extension", "://">>

NoActiveTabMsg ==
  <<"No active tab found for audio capture. Please try using ", "microphone", " instead.">>
RestrictedPageMsg ==
  <<"Tab capture is not allowed on Chrome internal pages. Please navigate to a regular website or use ",
    "microphone", " recording.">>
ApiUnavailableMsg ==
  <<"Tab capture API is not available. This might be due to browser restrictions. Please try using ",
    "microphone", " recording instead.">>
\* mutant: the empty-stream error without its last sentence
EmptyStreamMsg_NoGuidance == <<"Failed to capture tab audio - no stream returned.">>

EmptyStreamMsg ==
  <<"Failed to capture tab audio - no stream returned. Please try ", "microphone", " recording instead.">>
CaptureFailedMsg(raw) ==
  <<"Tab capture failed: ">> \o raw \o <<". Try using ", "microphone", " recording instead.">>

TabFallbackNotice ==
  <<"Tab capture failed. Using ", "microphone", " instead for better reliability.">>
MicDeniedMsg ==
  <<"Microphone ", "permission", " denied. Please allow ", "microphone",
    " access when prompted by your browser.">>
FailedToStartMsg == <<"Failed to start recording">>
FailedToTranscribeMsg == <<"Failed to transcribe audio">>


(********************* platform: getUserMedia ******************************)
\* The DOMExceptions navigator.mediaDevices.getUserMedia rejects with; the last
\* two are names the hook does not recognise, one of them with a text that
\* mentions the word the hook searches for.
PlatformMicErrors ==
  { [name |-> "NotAllowedError",      message |-> <<"Permission denied">>],
    [name |-> "NotFoundError",        message |-> <<"Requested device not found">>],
    [name |-> "NotReadableError",     message |-> <<"Could not start audio source">>],
    [name |-> "OverconstrainedError", message |-> <<"sampleRate">>],
    [name |-> "TypeError",            message |-> <<"getUserMedia is not a function">>],
    [name |-> "AbortError",           message |-> <<"The ", "permission", " prompt was dismissed">>] }

\* getMicrophoneStream's catch: the Error it throws for a platform rejection
GetMicrophoneStreamError(e) ==
  [name |-> "Error",
   message |->
     CASE e.name = "NotAllowedError" -> MicDeniedMsg
       [] e.name = "NotFoundError" ->
            <<"No microphone found. Please check your audio devices and try again.">>
       [] e.name = "NotReadableError" ->
            <<"Microphone is being used by another application. Please close other apps using the microphone.">>
       [] e.name = "OverconstrainedError" ->
            <<"Microphone constraints could not be satisfied. Please try with different audio settings.">>
       [] OTHER -> <<"Microphone access failed: ">> \o e.message]

\* startRecording's outer catch: the text it shows for a caught error
StartRecordingErrorMessage(err) ==
  CASE err.name = "NotAllowedError" -> MicDeniedMsg
    [] err.name = "NotFoundError" -> <<"No microphone found. Please check your audio devices.">>
    [] err.name = "NotReadableError" -> <<"Microphone is being used by another application.">>
    [] err.name = "OverconstrainedError" -> <<"Microphone constraints could not be satisfied.">>
    [] OTHER -> IF Includes(err.message, "permission") THEN MicDeniedMsg ELSE FailedToStartMsg

(***************************** state ***************************************)
VARIABLES
  \* panel: React state of the hook
  isRecording, isLoading, error,
  \* panel: refs of the hook
  mediaRecorderRef, audioChunksRef, streamRef,
  \* panel: props of the hook
  language, audioSource,
  \* bounds of the run: language changes made, chunks delivered, and, fixed
  \* at mount, the numbers of streams, pending invocations and exchanges the
  \* run is limited to and the language prop of the first render
  languageChanges, chunksDelivered, limits,
  \* panel: startRecording invocations and listener jobs suspended at an await
  calls,
  \* panel: the exchanges opened by the startRecording of types/index.ts, each
  \* with its message listener, its timer and the promise it returned
  exchanges,
  \* panel: the results handed to onTranscription
  results,
  \* history: in which situation stopRecording was last called
  lastStop,
  \* platform heap: MediaStreams and MediaRecorders
  streams, recorders,
  \* message bus: chrome.runtime messages in flight
  toCoord, toPanel,
  \* coordinator: chrome.storage.local, handler instances, chrome.tabCapture
  storage, tabReqs, stopReqs, tabCaptureApi, startReqs,
  \* coordinator: getSettings/saveSettings instances; the Options page
  settingsReqs, options,
  \* coordinator: the onInstalled handler
  install,
  \* content script: the media elements of the page, the debounce timer's
  \* handle, the timers the window holds, the page's clock and the time of
  \* its last DOM mutation
  media, audioChangeTimer, timers, now, lastMutation

panelVars == <<isRecording, isLoading, error, mediaRecorderRef, audioChunksRef, streamRef, results>>
propVars == <<language, audioSource, languageChanges, limits>>
heapVars == <<streams, recorders, chunksDelivered>>
coordVars == <<storage, tabReqs, stopReqs, tabCaptureApi, startReqs>>
pageVars == <<install, media, audioChangeTimer, timers, now, lastMutation>>
settingsVars == <<settingsReqs, options, pageVars>>
vars == <<panelVars, propVars, calls, exchanges, lastStop, heapVars, toCoord, toPanel, coordVars,
          settingsVars>>

\* chrome.storage.local.set(items): the keys of items are written, the others kept
StorageSet(store, items) ==
  [k \in DOMAIN store \cup DOMAIN items |-> IF k \in DOMAIN items THEN items[k] ELSE store[k]]

RemoveAt(seq, i) == SubSeq(seq, 1, i - 1) \o SubSeq(seq, i + 1, Len(seq))

Slots == 1..MaxPending
IdleCall ==
  [pc |-> "idle", kind |-> "none", lang |-> "en", waited |-> 0, stopIssued |-> FALSE,
   attempts |-> <<>>, rejections |-> <<>>, thrown |-> <<>>]
FreeSlots == {c \in 1..limits.pending : calls[c].pc = "idle"}
\* the lowest free slot: slots are interchangeable
FreeSlot == CHOOSE c \in FreeSlots : \A d \in FreeSlots : c <= d

(************************ panel: the hook **********************************)
\* What a handler of the hook reads and writes, as one record.
Panel ==
  [isRecording |-> isRecording, isLoading |-> isLoading, error |-> error,
   mediaRecorderRef |-> mediaRecorderRef, audioChunksRef |-> audioChunksRef,
   streamRef |-> streamRef, results |-> results,
   streams |-> streams, recorders |-> recorders, chunksDelivered |-> chunksDelivered,
   toCoord |-> toCoord]

\* track.stop() on every track of a stream: a stopped track stays stopped
StopTracks(p, s) == [p EXCEPT !.streams[s].tracks = "ended"]

\* MediaRecorder.stop(): an active recorder becomes inactive and its stop event
\* is queued; on an inactive recorder the call does nothing
RecorderStop(p, r) ==
  IF p.recorders[r].state = "recording"
    THEN [p EXCEPT !.recorders[r].state = "inactive", !.recorders[r].ev = "stop"]
    ELSE p

\* setupMediaRecorder(stream), called from a closure that captured `lang`
SetupMediaRecorder(p, s, lang, hist) ==
  LET r == Len(p.recorders) + 1
  IN [p EXCEPT !.streamRef = s,
               !.audioChunksRef = <<>>,
               !.recorders = Append(@, [stream |-> s, state |-> "recording", ev |-> "none",
                                         lang |-> lang, blob |-> <<>>,
                                         stopNotified |-> 0, hist |-> hist]),
               !.mediaRecorderRef = r,
               !.isRecording = TRUE]

\* the clean-up of the effect with dependency [isRecording], run with the
\* isRecording of the render that created it and the refs of now
CleanupEffect(p, closureIsRecording) ==
  LET p1 == IF p.mediaRecorderRef # 0 /\ closureIsRecording
              THEN RecorderStop(p, p.mediaRecorderRef) ELSE p
  IN IF p1.streamRef # 0 THEN StopTracks(p1, p1.streamRef) ELSE p1

\* React re-render after a handler: the effect is re-run when isRecording changed
Render(old, new) ==
  IF new.isRecording # old.isRecording THEN CleanupEffect(new, old.isRecording) ELSE new

Commit(p) ==
  /\ isRecording' = p.isRecording
  /\ isLoading' = p.isLoading
  /\ error' = p.error
  /\ mediaRecorderRef' = p.mediaRecorderRef
  /\ audioChunksRef' = p.audioChunksRef
  /\ streamRef' = p.streamRef
  /\ results' = p.results
  /\ streams' = p.streams
  /\ recorders' = p.recorders
  /\ chunksDelivered' = p.chunksDelivered
  /\ toCoord' = p.toCoord


\* chrome.runtime.sendMessage from the panel: the message is queued for the coordinator
SendToCoord(p, msg) == [p EXCEPT !.toCoord = Append(@, msg)]

NewCall(pc, kind) ==
  [pc |-> pc, kind |-> kind, lang |-> language, waited |-> 0, stopIssued |-> FALSE,
   attempts |-> <<>>, rejections |-> <<>>, thrown |-> <<>>]

\* the situation the claims call "a session is active"
SessionActive == mediaRecorderRef # 0 /\ isRecording

(*--- startRecording, up to its first await -------------------------------*)
StartRecording ==
  /\ FreeSlots # {}
  /\ LET c == FreeSlot
         p == [Panel EXCEPT !.isLoading = TRUE, !.error = Null]
     IN IF audioSource = "tab"
          THEN /\ Commit(Render(Panel, SendToCoord(p, [type |-> "START_TAB_CAPTURE", call |-> c])))
               /\ calls' = [calls EXCEPT ![c] = NewCall("awaitTabReply", "startRecording")]
          ELSE /\ Commit(Render(Panel, p))
               /\ calls' = [calls EXCEPT ![c] = NewCall("awaitMic", "startRecording")]
  /\ lastStop' = "none"
  /\ UNCHANGED <<propVars, exchanges, toPanel, coordVars, settingsVars>>

(*--- getMicrophoneStream resolves: the continuation sets the recorder up --*)
MicGranted(c) ==
  /\ calls[c].pc = "awaitMic"
  /\ Len(streams) < limits.streams
  /\ LET s == Len(streams) + 1
         p == [Panel EXCEPT !.streams = Append(@, [src |-> "microphone", tracks |-> "live"])]
         hist == [via |-> calls[c].kind, reqLang |-> calls[c].lang,
                  stopWhileStarting |-> calls[c].stopIssued]
         q == SetupMediaRecorder(p, s, calls[c].lang, hist)
     IN Commit(Render(Panel, [q EXCEPT !.isLoading = FALSE]))
  /\ calls' = [calls EXCEPT ![c] = IdleCall]
  /\ UNCHANGED <<propVars, exchanges, lastStop, toPanel, coordVars, settingsVars>>

(*--- getMicrophoneStream rejects ------------------------------------------*)
MicRejected(c, e) ==
  /\ calls[c].pc = "awaitMic"
  /\ LET err == GetMicrophoneStreamError(e)
         msg == IF calls[c].kind = "startRecording"
                  THEN StartRecordingErrorMessage(err)   \* startRecording's catch
                  ELSE err.message                       \* the listener's .catch
     IN Commit(Render(Panel, [Panel EXCEPT !.error = msg, !.isLoading = FALSE]))
  /\ calls' = [calls EXCEPT ![c] = IdleCall]
  /\ UNCHANGED <<propVars, exchanges, lastStop, toPanel, coordVars, settingsVars>>

(*--- stopRecording ---------------------------------------------------------*)
\* mutant: the guard without its isRecording test
StopGuard_RecorderOnly(p) == p.mediaRecorderRef # 0

StopGuard(p) == p.mediaRecorderRef # 0 /\ p.isRecording

\* mutant: stopRecording without setIsRecording(false)
StopRecordingBody_StaysRecording(p) ==
  IF StopGuard(p)
    THEN LET r == p.mediaRecorderRef
             q == RecorderStop(p, r)
         IN SendToCoord([q EXCEPT !.recorders[r].stopNotified = @ + 1],
                        [type |-> "STOP_TRANSCRIPTION", call |-> 0])
    ELSE p

StopRecordingBody(p) ==
  IF StopGuard(p)
    THEN LET r == p.mediaRecorderRef
             q == RecorderStop(p, r)
         IN SendToCoord([q EXCEPT !.isRecording = FALSE,
                                  !.recorders[r].stopNotified = @ + 1],
                        [type |-> "STOP_TRANSCRIPTION", call |-> 0])
    ELSE p

StopRecording ==
  /\ Commit(Render(Panel, StopRecordingBody(Panel)))
  /\ lastStop' = IF SessionActive THEN "onActive" ELSE "onIdle"
  /\ calls' = [c \in Slots |->
                 IF calls[c].pc # "idle" /\ calls[c].kind = "startRecording"
                   THEN [calls[c] EXCEPT !.stopIssued = TRUE] ELSE calls[c]]
  /\ UNCHANGED <<propVars, exchanges, toPanel, coordVars, settingsVars>>

(*--- MediaRecorder events --------------------------------------------------*)
\* ondataavailable, fired every timeslice while the recorder records
PushChunk(p, r, size) ==
  IF size > 0
    THEN [p EXCEPT !.audioChunksRef = Append(@, [rec |-> r, id |-> p.chunksDelivered + 1]),
                   !.chunksDelivered = @ + 1]
    ELSE p

DataAvailable(r, size) ==
  /\ recorders[r].state = "recording"
  /\ size > 0 => chunksDelivered < MaxChunks
  /\ Commit(Render(Panel, PushChunk(Panel, r, size)))
  /\ UNCHANGED <<propVars, calls, exchanges, lastStop, toPanel, coordVars, settingsVars>>

\* the platform stops a recorder whose stream has no live track left
RecorderTracksEnded(r) ==
  /\ recorders[r].state = "recording"
  /\ streams[recorders[r].stream].tracks = "ended"
  /\ Commit(Render(Panel, RecorderStop(Panel, r)))
  /\ UNCHANGED <<propVars, calls, exchanges, lastStop, toPanel, coordVars, settingsVars>>

\* the stop event: the last dataavailable, then onstop up to the stub's delay
OnStop(r, size) ==
  /\ recorders[r].ev = "stop"
  /\ size > 0 => chunksDelivered < MaxChunks
  /\ LET p == PushChunk(Panel, r, size)
     IN Commit(Render(Panel, [p EXCEPT !.recorders[r].blob = p.audioChunksRef,
                                       !.recorders[r].ev = "stub",
                                       !.isLoading = TRUE]))
  /\ UNCHANGED <<propVars, calls, exchanges, lastStop, toPanel, coordVars, settingsVars>>

\* mutant: the stub answers in the hook's default language
SimulateTranscription_DefaultLanguage(p, r, throws) ==
  [p EXCEPT !.results = Append(@, [rec |-> r, language |-> "en", confidence |-> ConfidencePct]),
            !.isLoading = FALSE]

\* simulateTranscription after its delay, with the language its closure holds
SimulateTranscription(p, r, throws) ==
  LET q == [p EXCEPT !.results = Append(@, [rec |-> r, language |-> p.recorders[r].lang,
                                            confidence |-> ConfidencePct])]
  IN [(IF throws THEN [q EXCEPT !.error = FailedToTranscribeMsg] ELSE q)
        EXCEPT !.isLoading = FALSE]

\* onstop after the stub: "Clean up"
OnStopCleanup(p, r) ==
  LET q == IF p.streamRef # 0
             THEN [StopTracks(p, p.streamRef) EXCEPT !.streamRef = 0] ELSE p
  IN [q EXCEPT !.recorders[r].ev = "done"]

StubSettle(r, throws) ==
  /\ recorders[r].ev = "stub"
  /\ Commit(Render(Panel, OnStopCleanup(SimulateTranscription(Panel, r, throws), r)))
  /\ UNCHANGED <<propVars, calls, exchanges, lastStop, toPanel, coordVars, settingsVars>>


(*--- the reply to START_TAB_CAPTURE reaches the awaiting startRecording ---*)
\* mutant: the catch of the tab request leaves the error as it was
FallbackNotice_Silent(p) == p

\* setError('Tab capture failed. Using microphone instead for better reliability.')
FallbackNotice(p) == [p EXCEPT !.error = TabFallbackNotice]

IdleReq == [pc |-> "idle", tab |-> <<>>, captureCalls |-> 0, reply |-> <<>>]

TabReply(c) ==
  /\ calls[c].pc = "awaitTabReply"
  /\ tabReqs[c].pc = "replied"
  /\ IF tabReqs[c].reply.error # Null
       THEN \* throw new Error(response.error), caught: fall back to the microphone
            /\ Commit(Render(Panel, FallbackNotice(Panel)))
            /\ calls' = [calls EXCEPT ![c].pc = "awaitMic"]
       ELSE /\ Commit(Render(Panel, [Panel EXCEPT !.isLoading = FALSE]))
            /\ calls' = [calls EXCEPT ![c] = IdleCall]
  /\ tabReqs' = [tabReqs EXCEPT ![c] = IdleReq]
  /\ UNCHANGED <<propVars, exchanges, lastStop, toPanel, storage, stopReqs, tabCaptureApi, startReqs, settingsVars>>

\* the request never reaches a handler that answers it: sendMessage rejects
\* (no receiving end) or resolves with undefined, and `response.error` throws;
\* either way the inner catch falls back to the microphone
TabRequestFails(c, how) ==
  /\ calls[c].pc = "awaitTabReply"
  /\ \E k \in DOMAIN toCoord :
       /\ toCoord[k] = [type |-> "START_TAB_CAPTURE", call |-> c]
       /\ Commit(Render(Panel, FallbackNotice([Panel EXCEPT !.toCoord = RemoveAt(toCoord, k)])))
  /\ calls' = [calls EXCEPT ![c].pc = "awaitMic"]
  /\ UNCHANGED <<propVars, exchanges, lastStop, toPanel, coordVars, settingsVars>>

\* ten seconds pass while a startRecording waits for the reply
TimeoutElapses(c) ==
  /\ calls[c].pc = "awaitTabReply"
  /\ calls[c].waited < TimeoutMs
  /\ calls' = [calls EXCEPT ![c].waited = @ + TimeoutMs]
  /\ UNCHANGED <<panelVars, propVars, exchanges, lastStop, heapVars, toCoord, toPanel, coordVars, settingsVars>>

(*--- the hook's chrome.runtime.onMessage listener -------------------------*)
ListenerHist == [via |-> "listener", reqLang |-> language, stopWhileStarting |-> FALSE]

PanelReceive ==
  /\ toPanel # <<>>
  /\ LET m == Head(toPanel)
     IN CASE m.type = "TRANSCRIPTION_ERROR" ->
               /\ Commit(Render(Panel, [Panel EXCEPT !.error = m.error, !.isLoading = FALSE,
                                                     !.isRecording = FALSE]))
               /\ calls' = calls
          [] m.type = "AUDIO_STREAM_READY" ->
               /\ IF m.stream # 0
                    THEN Commit(Render(Panel,
                           [SetupMediaRecorder(Panel, m.stream, language, ListenerHist)
                              EXCEPT !.isLoading = FALSE]))
                    ELSE Commit(Panel)
               /\ calls' = calls
          [] m.type = "START_MICROPHONE_RECORDING" ->
               /\ FreeSlots # {}
               /\ Commit(Panel)
               /\ calls' = [calls EXCEPT ![FreeSlot] = NewCall("awaitMic", "listener")]
          [] OTHER ->
               /\ Commit(Panel)
               /\ calls' = calls
  /\ toPanel' = Tail(toPanel)
  /\ UNCHANGED <<propVars, exchanges, lastStop, coordVars, settingsVars>>

(*--- props ------------------------------------------------------------------*)
ChangeLanguage(l) ==
  /\ l # language
  /\ languageChanges < MaxLanguageChanges
  /\ language' = l
  /\ languageChanges' = languageChanges + 1
  /\ UNCHANGED <<panelVars, audioSource, limits, calls, exchanges, lastStop, heapVars, toCoord, toPanel, coordVars, settingsVars>>

(********************** coordinator: part_001 *******************************)
\* what chrome.tabs.query({active, currentWindow}) may answer with
NoTab == [present |-> FALSE, id |-> 0, url |-> Null]
Tab(id, url) == [present |-> TRUE, id |-> id, url |-> url]
Tabs ==
  { NoTab,
    Tab(0, <<"chrome", "://", "extensions">>),
    Tab(7, Null),
    Tab(7, <<"chrome", "://", "extensions">>),
    Tab(7, <<"chrome-extension", "://", "abcdef/sidepanel.html">>),
    Tab(7, <<"chrome-search", "://", "local-ntp">>),
    Tab(7, <<"https", "://", "example.com">>) }

\* mutant: only the chrome:// scheme is refused
IsRestricted_ChromeOnly(tab) == tab.url # Null /\ StartsWith(tab.url, ChromeScheme)

\* !tab?.id
NoTabId(tab) == ~tab.present \/ tab.id = 0

\* tab.url?.startsWith('chrome://') || tab.url?.startsWith('chrome-extension://')
IsRestricted(tab) ==
  /\ tab.url # Null
  /\ StartsWith(tab.url, ChromeScheme) \/ StartsWith(tab.url, ChromeExtensionScheme)

Broadcast(msg) == toPanel' = Append(toPanel, msg)

\* { ...settings, isRecording: v }
WithIsRecording(settings, v) ==
  [k \in DOMAIN settings \cup {"isRecording"} |-> IF k = "isRecording" THEN v ELSE settings[k]]

\* a handleStartTranscription(settings) instance, at its first await
NewStartReq(settings) ==
  [pc |-> "set", data |-> settings, tab |-> NoTab, captureCalls |-> 0, sent |-> <<>>]

\* a getSettings() or saveSettings(message.data) instance, at its await
NewSettingsReq(kind, data) == [kind |-> kind, data |-> data, pc |-> "storage", reply |-> <<>>]

\* mutant: every type without a case of its own is answered like GET_SETTINGS
SettingsReceive_DefaultGet(m) ==
  settingsReqs' =
    IF m.type = "SAVE_SETTINGS" THEN Append(settingsReqs, NewSettingsReq("save", <<m.data>>))
    ELSE IF m.type \in {"START_TRANSCRIPTION", "STOP_TRANSCRIPTION"} THEN settingsReqs
    ELSE Append(settingsReqs, NewSettingsReq("get", <<>>))

\* case 'GET_SETTINGS' and case 'SAVE_SETTINGS' of the onMessage listener
SettingsReceive(m) ==
  settingsReqs' =
    IF m.type = "GET_SETTINGS" THEN Append(settingsReqs, NewSettingsReq("get", <<>>))
    ELSE IF m.type = "SAVE_SETTINGS" THEN Append(settingsReqs, NewSettingsReq("save", <<m.data>>))
    ELSE settingsReqs

\* the onMessage listener of the coordinator
CoordReceive ==
  /\ toCoord # <<>>
  /\ SettingsReceive(Head(toCoord))
  /\ options' = options
  /\ UNCHANGED pageVars
  /\ LET m == Head(toCoord)
     IN CASE m.type = "START_TRANSCRIPTION" ->
               /\ startReqs' = Append(startReqs, NewStartReq(m.data))
               /\ UNCHANGED <<tabReqs, stopReqs>>
          [] m.type = "START_TAB_CAPTURE" ->
               /\ tabReqs' = [tabReqs EXCEPT ![m.call] = [IdleReq EXCEPT !.pc = "query"]]
               /\ UNCHANGED <<stopReqs, startReqs>>
          [] m.type = "STOP_TRANSCRIPTION" ->
               /\ stopReqs' = Append(stopReqs, [pc |-> "get", data |-> <<>>])
               /\ UNCHANGED <<tabReqs, startReqs>>
          [] OTHER -> UNCHANGED <<tabReqs, stopReqs, startReqs>>
  /\ toCoord' = Tail(toCoord)
  /\ UNCHANGED <<panelVars, propVars, calls, exchanges, lastStop, heapVars, toPanel, storage, tabCaptureApi>>

\* mutant: a rejection answered as a success
ErrorReply_AsSuccess(reason) == [success |-> TRUE, error |-> Null]

\* .catch(error => { sendResponse({ error: error.message }) })
ErrorReply(reason) == [success |-> FALSE, error |-> reason]

\* mutant: the capture API is looked for before the tab is looked at
TabCaptureRefusal_ApiFirst(tab, api) ==
  IF ~api THEN ApiUnavailableMsg
  ELSE IF NoTabId(tab) THEN NoActiveTabMsg
  ELSE IF IsRestricted(tab) THEN RestrictedPageMsg
  ELSE Null

\* handleStartTabCapture's checks, in the order of the code: the error it throws, or Null
TabCaptureRefusal(tab, api) ==
  IF NoTabId(tab) THEN NoActiveTabMsg
  ELSE IF IsRestricted(tab) THEN RestrictedPageMsg
  ELSE IF ~api THEN ApiUnavailableMsg
  ELSE Null

\* chrome.tabs.query resolves; the checks run; capture is called or the request fails
TabQueryResolves(c, tab) ==
  /\ tabReqs[c].pc = "query"
  /\ LET refusal == TabCaptureRefusal(tab, tabCaptureApi)
     IN tabReqs' = [tabReqs EXCEPT ![c] =
          IF refusal # Null
            THEN [@ EXCEPT !.pc = "replied", !.tab = tab,
                           !.reply = ErrorReply(refusal)]
            ELSE [@ EXCEPT !.pc = "capturing", !.tab = tab, !.captureCalls = @ + 1]]
  /\ UNCHANGED <<panelVars, propVars, calls, exchanges, lastStop, heapVars, toCoord, toPanel,
                 storage, stopReqs, tabCaptureApi, startReqs, settingsVars>>

\* what chrome.runtime.lastError.message may read
CaptureErrors == { <<"Extension has not been invoked for the current page">> }

\* the callback of chrome.tabCapture.capture
TabCaptureFails(c, raw) ==
  /\ tabReqs[c].pc = "capturing"
  /\ tabReqs' = [tabReqs EXCEPT ![c].pc = "replied",
                                ![c].reply = ErrorReply(CaptureFailedMsg(raw))]
  /\ UNCHANGED <<panelVars, propVars, calls, exchanges, lastStop, heapVars, toCoord, toPanel,
                 storage, stopReqs, tabCaptureApi, startReqs, settingsVars>>

TabCaptureEmpty(c) ==
  /\ tabReqs[c].pc = "capturing"
  /\ tabReqs' = [tabReqs EXCEPT ![c].pc = "replied",
                                ![c].reply = ErrorReply(EmptyStreamMsg)]
  /\ UNCHANGED <<panelVars, propVars, calls, exchanges, lastStop, heapVars, toCoord, toPanel,
                 storage, stopReqs, tabCaptureApi, startReqs, settingsVars>>

TabCaptureSucceeds(c) ==
  /\ tabReqs[c].pc = "capturing"
  /\ Len(streams) < limits.streams
  /\ streams' = Append(streams, [src |-> "tab", tracks |-> "live"])
  /\ chunksDelivered' = chunksDelivered
  /\ Broadcast([type |-> "AUDIO_STREAM_READY", stream |-> Len(streams) + 1, error |-> Null])
  /\ tabReqs' = [tabReqs EXCEPT ![c].pc = "replied",
                                ![c].reply = [success |-> TRUE, error |-> Null]]
  /\ UNCHANGED <<panelVars, propVars, calls, exchanges, lastStop, recorders, toCoord,
                 storage, stopReqs, tabCaptureApi, startReqs, settingsVars>>

\* handleStopTranscription: chrome.storage.local.get resolves
StopGetResolves(i) ==
  /\ stopReqs[i].pc = "get"
  /\ IF "settings" \in DOMAIN storage
       THEN /\ stopReqs' = [stopReqs EXCEPT ![i] = [pc |-> "set", data |-> <<storage.settings>>]]
            /\ toPanel' = toPanel
       ELSE /\ stopReqs' = RemoveAt(stopReqs, i)
            /\ Broadcast([type |-> "TRANSCRIPTION_STOPPED", stream |-> 0, error |-> Null])
  /\ UNCHANGED <<panelVars, propVars, calls, exchanges, lastStop, heapVars, toCoord, storage,
                 tabReqs, tabCaptureApi, startReqs, settingsVars>>

\* mutant: the settings are written back as they were read
StoppedSettings_AsRead(settings) == settings

\* { ...data.settings, isRecording: false }
StoppedSettings(settings) == WithIsRecording(settings, FALSE)

\* handleStopTranscription: chrome.storage.local.set resolves, then the broadcast
StopSetResolves(i) ==
  /\ stopReqs[i].pc = "set"
  /\ storage' = StorageSet(storage, [settings |-> StoppedSettings(stopReqs[i].data[1])])
  /\ stopReqs' = RemoveAt(stopReqs, i)
  /\ Broadcast([type |-> "TRANSCRIPTION_STOPPED", stream |-> 0, error |-> Null])
  /\ UNCHANGED <<panelVars, propVars, calls, exchanges, lastStop, heapVars, toCoord,
                 tabReqs, tabCaptureApi, startReqs, settingsVars>>

(**************** coordinator: handleStartTranscription ********************)
\* the onMessage listener of background.ts: it has no START_TAB_CAPTURE case
CoordReceiveA ==
  /\ toCoord # <<>>
  /\ SettingsReceive(Head(toCoord))
  /\ options' = options
  /\ UNCHANGED pageVars
  /\ LET m == Head(toCoord)
     IN CASE m.type = "START_TRANSCRIPTION" ->
               /\ startReqs' = Append(startReqs, NewStartReq(m.data))
               /\ stopReqs' = stopReqs
          [] m.type = "STOP_TRANSCRIPTION" ->
               /\ stopReqs' = Append(stopReqs, [pc |-> "get", data |-> <<>>])
               /\ startReqs' = startReqs
          [] OTHER -> UNCHANGED <<stopReqs, startReqs>>
  /\ toCoord' = Tail(toCoord)
  /\ UNCHANGED <<panelVars, propVars, calls, exchanges, lastStop, heapVars, toPanel,
                 storage, tabReqs, tabCaptureApi>>

\* the messages handleStartTranscription broadcasts; a handler instance keeps
\* in `sent` the ones it has broadcast
TranscriptionError(text) == [type |-> "TRANSCRIPTION_ERROR", stream |-> 0, error |-> text]
StartMicrophoneRecording == [type |-> "START_MICROPHONE_RECORDING", stream |-> 0, error |-> Null]
AudioStreamReady(s) == [type |-> "AUDIO_STREAM_READY", stream |-> s, error |-> Null]

\* chrome.storage.local.set({settings: {...settings, isRecording: true}}) resolves;
\* the handler goes on to the tab query, or tells the panel to use the microphone
StartSetResolves(i) ==
  /\ startReqs[i].pc = "set"
  /\ storage' = StorageSet(storage, [settings |-> WithIsRecording(startReqs[i].data, TRUE)])
  /\ IF startReqs[i].data.audioSource = "tab"
       THEN /\ startReqs' = [startReqs EXCEPT ![i].pc = "query"]
            /\ toPanel' = toPanel
       ELSE /\ startReqs' = [startReqs EXCEPT ![i].pc = "done",
                                              ![i].sent = Append(@, StartMicrophoneRecording)]
            /\ Broadcast(StartMicrophoneRecording)
  /\ UNCHANGED <<panelVars, propVars, calls, exchanges, lastStop, heapVars, toCoord,
                 tabReqs, stopReqs, tabCaptureApi, settingsVars>>

\* mutant: a check broadcasts its error and the handler goes on to capture
RefusedPc_FallsThrough == "capturing"

\* `return` after the broadcast of a failed check
RefusedPc == "done"

\* chrome.tabs.query resolves: the three checks, then chrome.tabCapture.capture
StartQueryResolves(i, tab) ==
  /\ startReqs[i].pc = "query"
  /\ LET refusal == TabCaptureRefusal(tab, tabCaptureApi)
     IN IF refusal # Null
          THEN /\ startReqs' = [startReqs EXCEPT ![i].pc = RefusedPc, ![i].tab = tab,
                                                 ![i].sent = Append(@, TranscriptionError(refusal))]
               /\ Broadcast(TranscriptionError(refusal))
          ELSE /\ startReqs' = [startReqs EXCEPT ![i].pc = "capturing", ![i].tab = tab,
                                                 ![i].captureCalls = @ + 1]
               /\ toPanel' = toPanel
  /\ UNCHANGED <<panelVars, propVars, calls, exchanges, lastStop, heapVars, toCoord,
                 storage, tabReqs, stopReqs, tabCaptureApi, settingsVars>>

\* the callback of chrome.tabCapture.capture: lastError set
StartCaptureFails(i, raw) ==
  /\ startReqs[i].pc = "capturing"
  /\ startReqs' = [startReqs EXCEPT ![i].pc = "done", ![i].sent = Append(@, TranscriptionError(CaptureFailedMsg(raw)))]
  /\ Broadcast(TranscriptionError(CaptureFailedMsg(raw)))
  /\ UNCHANGED <<panelVars, propVars, calls, exchanges, lastStop, heapVars, toCoord,
                 storage, tabReqs, stopReqs, tabCaptureApi, settingsVars>>

\* the callback of chrome.tabCapture.capture: no error and no stream
StartCaptureEmpty(i) ==
  /\ startReqs[i].pc = "capturing"
  /\ startReqs' = [startReqs EXCEPT ![i].pc = "done", ![i].sent = Append(@, TranscriptionError(EmptyStreamMsg))]
  /\ Broadcast(TranscriptionError(EmptyStreamMsg))
  /\ UNCHANGED <<panelVars, propVars, calls, exchanges, lastStop, heapVars, toCoord,
                 storage, tabReqs, stopReqs, tabCaptureApi, settingsVars>>

\* the callback of chrome.tabCapture.capture: a stream, broadcast and not kept
StartCaptureSucceeds(i) ==
  /\ startReqs[i].pc = "capturing"
  /\ Len(streams) < limits.streams
  /\ streams' = Append(streams, [src |-> "tab", tracks |-> "live"])
  /\ chunksDelivered' = chunksDelivered
  /\ startReqs' = [startReqs EXCEPT ![i].pc = "done",
                                     ![i].sent = Append(@, AudioStreamReady(Len(streams) + 1))]
  /\ Broadcast(AudioStreamReady(Len(streams) + 1))
  /\ UNCHANGED <<panelVars, propVars, calls, exchanges, lastStop, recorders, toCoord,
                 storage, tabReqs, stopReqs, tabCaptureApi, settingsVars>>

(************** coordinator: getSettings and saveSettings ******************)
\* getSettings: chrome.storage.local.get resolves; data.settings || DEFAULT_SETTINGS
GetSettingsResolves(i) ==
  /\ settingsReqs[i].kind = "get" /\ settingsReqs[i].pc = "storage"
  /\ settingsReqs' = [settingsReqs EXCEPT
        ![i].pc = "replied",
        ![i].reply = <<IF "settings" \in DOMAIN storage THEN storage.settings
                       ELSE DEFAULT_SETTINGS>>]
  /\ UNCHANGED <<panelVars, propVars, calls, exchanges, lastStop, heapVars, toCoord, toPanel,
                 coordVars, options, pageVars>>

\* mutant: the model choice is not stored
SavedSettings_WithoutModel(data) == [data EXCEPT !.llmModel = DEFAULT_SETTINGS.llmModel]

\* chrome.storage.local.set({ settings })
SavedSettings(data) == data

\* saveSettings: chrome.storage.local.set resolves; sendResponse(undefined)
SaveSettingsResolves(i) ==
  /\ settingsReqs[i].kind = "save" /\ settingsReqs[i].pc = "storage"
  /\ storage' = StorageSet(storage, [settings |-> SavedSettings(settingsReqs[i].data[1])])
  /\ settingsReqs' = [settingsReqs EXCEPT ![i].pc = "replied"]
  /\ UNCHANGED <<panelVars, propVars, calls, exchanges, lastStop, heapVars, toCoord, toPanel,
                 tabReqs, stopReqs, tabCaptureApi, startReqs, options, pageVars>>

\* the response reaches the page that sent the request
SettingsReplyTaken(i) ==
  /\ settingsReqs[i].pc = "replied"
  /\ settingsReqs' = RemoveAt(settingsReqs, i)
  /\ UNCHANGED <<panelVars, propVars, calls, exchanges, lastStop, heapVars, toCoord, toPanel,
                 coordVars, options, pageVars>>

(************************* the Options page ********************************)
\* useState(DEFAULT_SETTINGS), isSaving, saveSuccess; the effect has called
\* loadSettings, which waits for chrome.storage.local.get
OptionsMounted ==
  [settings |-> DEFAULT_SETTINGS, isSaving |-> FALSE, saveSuccess |-> FALSE,
   loading |-> TRUE, saving |-> <<>>]

\* loadSettings: the get resolves; if (data.settings) setSettings(data.settings)
LoadSettingsResolves ==
  /\ options.loading
  /\ options' = [options EXCEPT !.loading = FALSE,
                                !.settings = IF "settings" \in DOMAIN storage
                                               THEN storage.settings ELSE @]
  /\ UNCHANGED <<panelVars, propVars, calls, exchanges, lastStop, heapVars, toCoord, toPanel,
                 coordVars, settingsReqs, pageVars>>

\* what the selects of the page offer
SettingChoices == { <<"targetLanguage", "es">> }

\* handleSettingChange(key, value): { ...prev, [key]: value }
HandleSettingChange(key, value) ==
  /\ options' = [options EXCEPT !.settings =
        [k \in DOMAIN @ \cup {key} |-> IF k = key THEN value ELSE @[k]]]
  /\ options'.settings # options.settings
  /\ UNCHANGED <<panelVars, propVars, calls, exchanges, lastStop, heapVars, toCoord, toPanel,
                 coordVars, settingsReqs, pageVars>>

\* handleSave up to its await; the button is disabled while isSaving
HandleSave ==
  /\ ~options.isSaving
  /\ options' = [options EXCEPT !.isSaving = TRUE, !.saveSuccess = FALSE,
                                !.saving = <<options.settings>>]
  /\ UNCHANGED <<panelVars, propVars, calls, exchanges, lastStop, heapVars, toCoord, toPanel,
                 coordVars, settingsReqs, pageVars>>

\* chrome.storage.local.set({ settings }) of handleSave resolves
HandleSaveResolves ==
  /\ options.isSaving
  /\ storage' = StorageSet(storage, [settings |-> options.saving[1]])
  /\ options' = [options EXCEPT !.isSaving = FALSE, !.saveSuccess = TRUE, !.saving = <<>>]
  /\ UNCHANGED <<panelVars, propVars, calls, exchanges, lastStop, heapVars, toCoord, toPanel,
                 tabReqs, stopReqs, tabCaptureApi, startReqs, settingsReqs, pageVars>>

\* setTimeout(() => setSaveSuccess(false), 2000)
SaveSuccessHides ==
  /\ options.saveSuccess
  /\ options' = [options EXCEPT !.saveSuccess = FALSE]
  /\ UNCHANGED <<panelVars, propVars, calls, exchanges, lastStop, heapVars, toCoord, toPanel,
                 coordVars, settingsReqs, pageVars>>

(************ panel: the hook that waits with a message listener ***********)
TimeoutMsg == <<"Timeout waiting for tab capture">>
NoStreamMsg == <<"No stream received from background script">>

\* resolve() or reject(): only the first call settles the promise
Settle(x, outcome, reason) ==
  IF x.outcome = "pending" THEN [x EXCEPT !.outcome = outcome, !.reason = reason] ELSE x

NewExchange ==
  [listener |-> TRUE, timer |-> "armed", outcome |-> "pending", reason |-> Null,
   lang |-> language, setups |-> 0]

\* startRecording of types/index.ts, up to its first await or its return: on
\* 'tab' it sends START_TRANSCRIPTION, registers messageListener, arms the
\* timer and returns the promise; `finally` clears isLoading
StartRecordingT2 ==
  /\ LET p == [Panel EXCEPT !.isLoading = TRUE, !.error = Null]
     IN IF audioSource = "microphone"
          THEN /\ FreeSlots # {}
               /\ Commit(Render(Panel, p))
               /\ calls' = [calls EXCEPT ![FreeSlot] = NewCall("awaitUserMedia", "startRecording")]
               /\ exchanges' = exchanges
          ELSE /\ Len(exchanges) < limits.exchanges
               /\ Commit(Render(Panel,
                    [SendToCoord(p, [type |-> "START_TRANSCRIPTION", call |-> 0,
                                     data |-> [audioSource |-> audioSource,
                                               language |-> language]])
                       EXCEPT !.isLoading = FALSE]))
               /\ exchanges' = Append(exchanges, NewExchange)
               /\ calls' = calls
  /\ lastStop' = "none"
  /\ UNCHANGED <<propVars, toPanel, coordVars, settingsVars>>

\* getUserMedia resolves: setupMediaRecorder(stream), then `finally`
UserMediaGranted(c) ==
  /\ calls[c].pc = "awaitUserMedia"
  /\ Len(streams) < limits.streams
  /\ LET s == Len(streams) + 1
         p == [Panel EXCEPT !.streams = Append(@, [src |-> "microphone", tracks |-> "live"])]
         hist == [via |-> calls[c].kind, reqLang |-> calls[c].lang,
                  stopWhileStarting |-> calls[c].stopIssued]
     IN Commit(Render(Panel, [SetupMediaRecorder(p, s, limits.mountLanguage, hist)
                                EXCEPT !.isLoading = FALSE]))
  /\ calls' = [calls EXCEPT ![c] = IdleCall]
  /\ UNCHANGED <<propVars, exchanges, lastStop, toPanel, coordVars, settingsVars>>

\* getUserMedia rejects: the catch shows the platform's own message
UserMediaRejected(c, e) ==
  /\ calls[c].pc = "awaitUserMedia"
  /\ Commit(Render(Panel, [Panel EXCEPT !.error = e.message, !.isLoading = FALSE]))
  /\ calls' = [calls EXCEPT ![c] = IdleCall]
  /\ UNCHANGED <<propVars, exchanges, lastStop, toPanel, coordVars, settingsVars>>

\* mutant: the timer rejects and leaves the listener registered
TimerFires_KeepsListener(x) == [Settle(x, "rejected", TimeoutMsg) EXCEPT !.timer = "fired"]

\* the setTimeout callback: removeListener(messageListener), then reject(Timeout)
TimerFires(x) ==
  [Settle(x, "rejected", TimeoutMsg) EXCEPT !.timer = "fired", !.listener = FALSE]

\* the timer of an exchange fires, ten seconds after startRecording set it
ExchangeTimeout(i) ==
  /\ exchanges[i].timer = "armed"
  /\ exchanges' = [exchanges EXCEPT ![i] = TimerFires(@)]
  /\ UNCHANGED <<panelVars, propVars, calls, lastStop, heapVars, toCoord, toPanel, coordVars, settingsVars>>

\* messageListener of exchange i on message m: the panel and the exchanges after it
MessageListener(pe, i, m) ==
  LET p == pe.panel
      x == pe.exchanges[i]
      hist == [via |-> "listener", reqLang |-> x.lang, stopWhileStarting |-> FALSE]
  IN IF ~x.listener THEN pe
     ELSE CASE m.type = "AUDIO_STREAM_READY" ->
                 IF m.stream # 0
                   THEN [panel |-> SetupMediaRecorder(p, m.stream, limits.mountLanguage, hist),
                         exchanges |-> [pe.exchanges EXCEPT ![i] =
                            [Settle(x, "resolved", Null) EXCEPT !.setups = @ + 1,
                                                                !.listener = FALSE]]]
                   ELSE [pe EXCEPT !.exchanges[i] =
                            [Settle(x, "rejected", NoStreamMsg) EXCEPT !.listener = FALSE]]
            [] m.type = "TRANSCRIPTION_ERROR" ->
                 [pe EXCEPT !.exchanges[i] =
                    [Settle(x, "rejected", m.error) EXCEPT !.listener = FALSE]]
            [] OTHER -> pe

\* chrome.runtime.onMessage dispatches m to the listeners in registration order
RECURSIVE Dispatch(_, _, _)
Dispatch(pe, i, m) ==
  IF i > Len(pe.exchanges) THEN pe ELSE Dispatch(MessageListener(pe, i, m), i + 1, m)

\* a broadcast of the coordinator reaches the panel
PanelReceiveT2 ==
  /\ toPanel # <<>>
  /\ LET pe == Dispatch([panel |-> Panel, exchanges |-> exchanges], 1, Head(toPanel))
     IN /\ Commit(Render(Panel, pe.panel))
        /\ exchanges' = pe.exchanges
  /\ toPanel' = Tail(toPanel)
  /\ UNCHANGED <<propVars, calls, lastStop, coordVars, settingsVars>>

(************* the coordinator's inputs, whoever sends them ****************)
\* the `data` of a START_TRANSCRIPTION message
SettingsInputs == {[audioSource |-> a, language |-> "en"] : a \in {"microphone", "tab"}}

InFlight(type) == Cardinality({k \in DOMAIN toCoord : toCoord[k].type = type})

\* an extension page sends START_TRANSCRIPTION
SendStartTranscription(settings) ==
  /\ Len(startReqs) + InFlight("START_TRANSCRIPTION") < MaxCoordStarts
  /\ toCoord' = Append(toCoord, [type |-> "START_TRANSCRIPTION", call |-> 0, data |-> settings])
  /\ UNCHANGED <<panelVars, propVars, calls, exchanges, lastStop, heapVars, toPanel, coordVars, settingsVars>>

\* an extension page sends STOP_TRANSCRIPTION; the stops whose
\* TRANSCRIPTION_STOPPED has not been delivered yet are bounded
SendStopTranscription ==
  /\ Len(stopReqs) + InFlight("STOP_TRANSCRIPTION")
       + Cardinality({k \in DOMAIN toPanel : toPanel[k].type = "TRANSCRIPTION_STOPPED"})
       < MaxCoordStops
  /\ toCoord' = Append(toCoord, [type |-> "STOP_TRANSCRIPTION", call |-> 0])
  /\ UNCHANGED <<panelVars, propVars, calls, exchanges, lastStop, heapVars, toPanel, coordVars, settingsVars>>

\* the `data` of a SAVE_SETTINGS message: a full settings record
SaveInputs == { [DEFAULT_SETTINGS EXCEPT !.llmModel = "google"] }

\* an extension page sends GET_SETTINGS or SAVE_SETTINGS and awaits the response
SendGetSettings ==
  /\ Len(settingsReqs) + InFlight("GET_SETTINGS") + InFlight("SAVE_SETTINGS") < MaxSettingsReqs
  /\ toCoord' = Append(toCoord, [type |-> "GET_SETTINGS", call |-> 0])
  /\ UNCHANGED <<panelVars, propVars, calls, exchanges, lastStop, heapVars, toPanel, coordVars,
                 settingsVars>>

SendSaveSettings(settings) ==
  /\ Len(settingsReqs) + InFlight("GET_SETTINGS") + InFlight("SAVE_SETTINGS") < MaxSettingsReqs
  /\ toCoord' = Append(toCoord, [type |-> "SAVE_SETTINGS", call |-> 0, data |-> settings])
  /\ UNCHANGED <<panelVars, propVars, calls, exchanges, lastStop, heapVars, toPanel, coordVars,
                 settingsVars>>

(*********************** coordinator: onInstalled ***************************)
\* the store when onInstalled fires: empty after a first install; after an
\* update, what the previous version left
EmptyStore == [k \in {} |-> Null]
InstallStores ==
  { EmptyStore,
    [settings |-> [DEFAULT_SETTINGS EXCEPT !.targetLanguage = "es"],
     transcriptions |-> <<"t1">>, summaries |-> <<>>] }

\* const existingData = await chrome.storage.local.get(['settings'])
InstallGetResolves ==
  /\ install = "get"
  /\ install' = IF "settings" \in DOMAIN storage THEN "done" ELSE "set"
  /\ UNCHANGED <<panelVars, propVars, calls, exchanges, lastStop, heapVars, toCoord, toPanel,
                 coordVars, settingsReqs, options, media, audioChangeTimer, timers, now,
                 lastMutation>>

\* await chrome.storage.local.set(initialData)
InstallSetResolves ==
  /\ install = "set"
  /\ storage' = StorageSet(storage, InitialData)
  /\ install' = "done"
  /\ UNCHANGED <<panelVars, propVars, calls, exchanges, lastStop, heapVars, toCoord, toPanel,
                 tabReqs, stopReqs, tabCaptureApi, startReqs, settingsReqs, options, media,
                 audioChangeTimer, timers, now, lastMutation>>

(************************ the content script *******************************)
\* what the content script reports: play and pause of a media element, the
\* answer to GET_PAGE_AUDIO and to INJECT_AUDIO_CAPTURE
ObserverTypes == {"AUDIO_STARTED", "AUDIO_STOPPED", "PAGE_AUDIO_INFO", "AUDIO_CAPTURE_INJECTED"}

ObserverSends(type) ==
  /\ Cardinality({k \in DOMAIN toCoord : toCoord[k].type \in ObserverTypes}) < MaxAdvisories
  /\ toCoord' = Append(toCoord, [type |-> type, call |-> 0])
  /\ UNCHANGED <<panelVars, propVars, calls, exchanges, lastStop, heapVars, toPanel, coordVars,
                 settingsVars>>

\* an audio or video element of the page: whether it carries the attribute
\* data-transcriber-monitored, how many play and pause listeners the content
\* script has added to it, and whether it is paused
NewMedia == [monitored |-> FALSE, play |-> 0, pause |-> 0, paused |-> TRUE]

\* mutant: the listeners are added whether or not the attribute is there
MonitorAudioChanges_NoGuard(m) ==
  [e \in DOMAIN m |-> [m[e] EXCEPT !.monitored = TRUE, !.play = @ + 1, !.pause = @ + 1]]

\* monitorAudioChanges: every element without the attribute gets the attribute
\* and one listener for play and one for pause
MonitorAudioChanges(m) ==
  [e \in DOMAIN m |->
     IF ~m[e].monitored
       THEN [m[e] EXCEPT !.monitored = TRUE, !.play = @ + 1, !.pause = @ + 1]
       ELSE m[e]]

\* the timers of the window that are set and neither cleared nor fired
PendingTimers == {i \in DOMAIN timers : timers[i].state = "pending"}

\* mutant: the pending timer is not cleared
ClearTimeout_Keeps(ts, handle) == ts

\* if (audioChangeTimer) clearTimeout(audioChangeTimer)
ClearTimeout(ts, handle) ==
  IF handle # 0 /\ ts[handle].state = "pending"
    THEN [ts EXCEPT ![handle].state = "cleared"] ELSE ts

\* the page changes its DOM, adding a media element or not, and the
\* MutationObserver's callback runs: the pending timer is cleared and a new
\* one is set to fire DebounceMs later
Mutation(addsMedia) ==
  /\ Len(timers) < MaxTimers
  /\ now + DebounceMs <= MaxTime
  /\ addsMedia => Len(media) < MaxMedia
  /\ media' = IF addsMedia THEN Append(media, NewMedia) ELSE media
  /\ timers' = Append(ClearTimeout(timers, audioChangeTimer),
                      [due |-> now + DebounceMs, state |-> "pending"])
  /\ audioChangeTimer' = Len(timers) + 1
  /\ lastMutation' = now
  /\ UNCHANGED <<panelVars, propVars, calls, exchanges, lastStop, heapVars, toCoord, toPanel,
                 coordVars, settingsReqs, options, install, now>>

\* time passes on the page, half a debounce delay at a time; a timer that is
\* due may fire late
Tick ==
  /\ now + DebounceMs \div 2 <= MaxTime
  /\ now' = now + DebounceMs \div 2
  /\ UNCHANGED <<panelVars, propVars, calls, exchanges, lastStop, heapVars, toCoord, toPanel,
                 coordVars, settingsReqs, options, install, media, audioChangeTimer, timers,
                 lastMutation>>

\* the callback of window.setTimeout: monitorAudioChanges(); audioChangeTimer = null
RescanTimerFires(i) ==
  /\ timers[i].state = "pending"
  /\ timers[i].due <= now
  /\ timers' = [timers EXCEPT ![i].state = "fired"]
  /\ media' = MonitorAudioChanges(media)
  /\ audioChangeTimer' = 0
  /\ UNCHANGED <<panelVars, propVars, calls, exchanges, lastStop, heapVars, toCoord, toPanel,
                 coordVars, settingsReqs, options, install, now, lastMutation>>

\* n messages of one type, sent one after the other
Sent(type, n) == [k \in 1..n |-> [type |-> type, call |-> 0]]

\* a media element starts to play: each play listener sends AUDIO_STARTED
MediaPlays(e) ==
  /\ media[e].paused
  /\ Len(toCoord) < MaxPageMessages
  /\ media' = [media EXCEPT ![e].paused = FALSE]
  /\ toCoord' = toCoord \o Sent("AUDIO_STARTED", media[e].play)
  /\ UNCHANGED <<panelVars, propVars, calls, exchanges, lastStop, heapVars, toPanel,
                 coordVars, settingsReqs, options, install, audioChangeTimer, timers, now,
                 lastMutation>>

\* a media element pauses: each pause listener sends AUDIO_STOPPED
MediaPauses(e) ==
  /\ ~media[e].paused
  /\ Len(toCoord) < MaxPageMessages
  /\ media' = [media EXCEPT ![e].paused = TRUE]
  /\ toCoord' = toCoord \o Sent("AUDIO_STOPPED", media[e].pause)
  /\ UNCHANGED <<panelVars, propVars, calls, exchanges, lastStop, heapVars, toPanel,
                 coordVars, settingsReqs, options, install, audioChangeTimer, timers, now,
                 lastMutation>>

(******** panel: getMicrophoneStream with two constraint sets **************)
\* The hook of part_002 is the hook above with another getMicrophoneStream:
\* { audio: true } first, the enriched constraints second.  A call slot keeps
\* the constraint sets tried, the rejections met and the text thrown.
UnsupportedMsg == <<"getUserMedia is not supported in this browser">>

\* toLowerCase(), on the pieces a platform message is made of
ToLowerCase(str) ==
  [i \in DOMAIN str |-> IF str[i] = "Permission" THEN "permission" ELSE str[i]]

\* what getUserMedia may reject with, as far as this getMicrophoneStream tells apart
PlatformMicErrors2 ==
  PlatformMicErrors \cup
    { [name |-> "SecurityError", message |-> <<"Invalid security origin">>],
      [name |-> "UnknownError",  message |-> <<"Permission", " state could not be read">>] }

\* the outer catch of getMicrophoneStream: the Error thrown for the error caught
GetMicrophoneStreamError2(e) ==
  [name |-> "Error",
   message |->
     CASE e.name = "NotAllowedError" ->
            <<"Microphone ", "permission", " denied. Please click \"Allow\" when your browser prompts for microphone access. If you already denied it, click the lock icon in your browser's address bar to enable microphone access.">>
       [] e.name = "NotFoundError" ->
            <<"No microphone found. Please connect a microphone to your computer and try again.">>
       [] e.name = "NotReadableError" ->
            <<"Microphone is being used by another application. Please close other apps that might be using the microphone and try again.">>
       [] e.name = "OverconstrainedError" ->
            <<"Microphone constraints could not be satisfied. This usually indicates a hardware issue.">>
       [] e.name = "SecurityError" ->
            <<"Microphone access blocked by security policy. Please check your browser security settings.">>
       [] OTHER ->
            IF Includes(ToLowerCase(e.message), "permission")
              THEN <<"Microphone ", "permission", " issue. Please allow microphone access in your browser and try again.">>
              ELSE <<"Microphone access failed: ">>
                     \o (IF e.message = Null THEN <<"Unknown error">> ELSE e.message)
                     \o <<". Please check your microphone settings and try again.">>]

\* getMicrophoneStream throws to startRecording or to the listener's .catch
MicThrows2(c, e, rejections) ==
  LET err == GetMicrophoneStreamError2(e)
      msg == IF calls[c].kind = "startRecording"
               THEN StartRecordingErrorMessage(err) ELSE err.message
  IN /\ Commit(Render(Panel, [Panel EXCEPT !.error = msg, !.isLoading = FALSE]))
     /\ calls' = [calls EXCEPT ![c] = [IdleCall EXCEPT !.attempts = calls[c].attempts,
                                                       !.rejections = rejections,
                                                       !.thrown = err.message]]

\* getMicrophoneStream is entered: the support check, then the first getUserMedia
MicEnter2(c, supported) ==
  /\ calls[c].pc = "awaitMic" /\ calls[c].attempts = <<>>
  /\ IF supported
       THEN /\ calls' = [calls EXCEPT ![c].attempts = <<"minimal">>]
            /\ UNCHANGED <<panelVars, heapVars, toCoord>>
       ELSE MicThrows2(c, [name |-> "Error", message |-> UnsupportedMsg], <<>>)
  /\ UNCHANGED <<propVars, exchanges, lastStop, toPanel, coordVars, settingsVars>>

\* the first getUserMedia rejects: the second one is made, with the enriched set
SimpleRejected(c, e) ==
  /\ calls[c].pc = "awaitMic" /\ calls[c].attempts = <<"minimal">>
  /\ calls' = [calls EXCEPT ![c].attempts = <<"minimal", "enriched">>,
                            ![c].rejections = <<e>>]
  /\ UNCHANGED <<panelVars, propVars, exchanges, lastStop, heapVars, toCoord, toPanel, coordVars, settingsVars>>

\* mutant: when both attempts fail the second error is thrown
OptimalFailure_Second(first, second) == second

\* catch (optimalError) { throw simpleError }
OptimalFailure(first, second) == first

\* the second getUserMedia rejects as well
OptimalRejected(c, e) ==
  /\ calls[c].pc = "awaitMic" /\ calls[c].attempts = <<"minimal", "enriched">>
  /\ MicThrows2(c, OptimalFailure(calls[c].rejections[1], e), Append(calls[c].rejections, e))
  /\ UNCHANGED <<propVars, exchanges, lastStop, toPanel, coordVars, settingsVars>>

\* either getUserMedia resolves: the caller sets the recorder up
MicGranted2(c) ==
  /\ calls[c].pc = "awaitMic" /\ calls[c].attempts # <<>>
  /\ Len(streams) < limits.streams
  /\ LET s == Len(streams) + 1
         p == [Panel EXCEPT !.streams = Append(@, [src |-> "microphone", tracks |-> "live"])]
         hist == [via |-> calls[c].kind, reqLang |-> calls[c].lang,
                  stopWhileStarting |-> calls[c].stopIssued]
     IN Commit(Render(Panel, [SetupMediaRecorder(p, s, calls[c].lang, hist)
                                EXCEPT !.isLoading = FALSE]))
  /\ calls' = [calls EXCEPT ![c] = [IdleCall EXCEPT !.attempts = calls[c].attempts,
                                                    !.rejections = calls[c].rejections]]
  /\ UNCHANGED <<propVars, exchanges, lastStop, toPanel, coordVars, settingsVars>>

(************************** specification **********************************)
\* The state after the extension is installed and the panel is mounted with
\* the given props; `apis` tells whether chrome.tabCapture.capture may exist.
InitBase(lang, source, apis, lim) ==
  /\ isRecording = FALSE /\ isLoading = FALSE /\ error = Null
  /\ mediaRecorderRef = 0 /\ audioChunksRef = <<>> /\ streamRef = 0
  /\ language = lang /\ audioSource = source
  /\ languageChanges = 0 /\ chunksDelivered = 0
  /\ limits = lim
  /\ calls = [c \in Slots |-> IdleCall]
  /\ exchanges = <<>>
  /\ results = <<>>
  /\ lastStop = "none"
  /\ streams = <<>> /\ recorders = <<>>
  /\ toCoord = <<>> /\ toPanel = <<>>
  /\ tabReqs = [c \in Slots |-> IdleReq]
  /\ stopReqs = <<>>
  /\ startReqs = <<>>
  /\ tabCaptureApi \in apis
  /\ settingsReqs = <<>>
  /\ options = OptionsMounted

\* the extension was installed some time ago and no page runs its content script
InitWith(lang, source, apis, lim) ==
  /\ InitBase(lang, source, apis, lim)
  /\ storage = InitialData
  /\ install = "done"
  /\ media = <<>> /\ audioChangeTimer = 0 /\ timers = <<>> /\ now = 0 /\ lastMutation = 0

\* the panel's own steps, whatever the audio source
PanelNext ==
  \/ StartRecording
  \/ StopRecording
  \/ \E c \in Slots : MicGranted(c)
  \/ \E c \in Slots, e \in PlatformMicErrors : MicRejected(c, e)
  \/ \E r \in DOMAIN recorders : RecorderTracksEnded(r)
  \/ \E r \in DOMAIN recorders, size \in {0, 1} : OnStop(r, size)
  \/ \E r \in DOMAIN recorders, throws \in BOOLEAN : StubSettle(r, throws)

\* the coordinator's handling of STOP_TRANSCRIPTION
CoordStopNext ==
  \/ CoordReceive
  \/ \E i \in DOMAIN stopReqs : StopGetResolves(i)
  \/ \E i \in DOMAIN stopReqs : StopSetResolves(i)

\* the coordinator's handling of START_TAB_CAPTURE and the panel's wait for it
TabCaptureNext ==
  \/ \E c \in Slots : TabReply(c)
  \/ \E c \in Slots, how \in {"rejected", "undefined"} : TabRequestFails(c, how)
  \/ \E c \in Slots : TimeoutElapses(c)
  \/ \E c \in Slots, tab \in Tabs : TabQueryResolves(c, tab)
  \/ \E c \in Slots, raw \in CaptureErrors : TabCaptureFails(c, raw)
  \/ \E c \in Slots : TabCaptureEmpty(c)
  \/ \E c \in Slots : TabCaptureSucceeds(c)

(* The panel alone, on the microphone: the hook is mounted with its default  *)
(* props (language 'en', audioSource 'microphone') and the user may change   *)
(* the language.  The messages the hook sends stay queued in toCoord: on     *)
(* this path nothing the coordinator does with them reaches the hook.        *)
Limits(nStreams, nPending, nExchanges, lang) ==
  [streams |-> nStreams, pending |-> nPending, exchanges |-> nExchanges, mountLanguage |-> lang]

Init == InitWith("en", "microphone", {TRUE}, Limits(MaxStreams, MaxPending, 0, "en"))

Next ==
  \/ PanelNext
  \/ \E r \in DOMAIN recorders, size \in {0, 1} : DataAvailable(r, size)
  \/ \E l \in Languages : ChangeLanguage(l)

Spec == Init /\ [][Next]_vars

(* Tab sessions: the hook is mounted with audioSource 'tab' and the          *)
(* coordinator of part_001 answers START_TAB_CAPTURE and STOP_TRANSCRIPTION; *)
(* recorders are stopped before their first timeslice ends.                  *)
InitTab == InitWith("en", "tab", BOOLEAN, Limits(MaxTabStreams, MaxTabPending, 0, "en"))

NextTab ==
  \/ PanelNext
  \/ PanelReceive
  \/ CoordStopNext
  \/ TabCaptureNext

SpecTab == InitTab /\ [][NextTab]_vars

(* The same, with a second startRecording allowed while the first one waits. *)
InitTab2 == InitWith("en", "tab", BOOLEAN, Limits(MaxTab2Streams, MaxTab2Pending, 0, "en"))

SpecTab2 == InitTab2 /\ [][NextTab]_vars

(* Tab sessions of the hook of types/index.ts, which sends START_TRANSCRIPTION *)
(* and waits for the broadcast with a listener and a ten-second timer, with    *)
(* the coordinator of background.ts.                                           *)
InitListener ==
  InitWith("en", "tab", BOOLEAN, Limits(MaxListenerStreams, MaxPending, MaxExchanges, "en"))

NextListener ==
  \/ StartRecordingT2
  \/ \E i \in DOMAIN exchanges : ExchangeTimeout(i)
  \/ PanelReceiveT2
  \/ StopRecording
  \/ \E r \in DOMAIN recorders : RecorderTracksEnded(r)
  \/ \E r \in DOMAIN recorders, size \in {0, 1} : OnStop(r, size)
  \/ \E r \in DOMAIN recorders, throws \in BOOLEAN : StubSettle(r, throws)
  \/ CoordReceiveA
  \/ \E i \in DOMAIN startReqs : StartSetResolves(i)
  \/ \E i \in DOMAIN startReqs, tab \in Tabs : StartQueryResolves(i, tab)
  \/ \E i \in DOMAIN startReqs, raw \in CaptureErrors : StartCaptureFails(i, raw)
  \/ \E i \in DOMAIN startReqs : StartCaptureEmpty(i)
  \/ \E i \in DOMAIN startReqs : StartCaptureSucceeds(i)
  \/ \E i \in DOMAIN stopReqs : StopGetResolves(i)
  \/ \E i \in DOMAIN stopReqs : StopSetResolves(i)

SpecListener == InitListener /\ [][NextListener]_vars

(* The hook of part_002 alone, on the microphone: one startRecording at a    *)
(* time, each getUserMedia of getMicrophoneStream granted or rejected.       *)
InitMic2 == InitWith("en", "microphone", {TRUE}, Limits(MaxMic2Streams, MaxMic2Pending, 0, "en"))

NextMic2 ==
  \/ StartRecording
  \/ StopRecording
  \/ \E c \in Slots, supported \in BOOLEAN : MicEnter2(c, supported)
  \/ \E c \in Slots, e \in PlatformMicErrors2 : SimpleRejected(c, e)
  \/ \E c \in Slots, e \in PlatformMicErrors2 : OptimalRejected(c, e)
  \/ \E c \in Slots : MicGranted2(c)
  \/ \E r \in DOMAIN recorders : RecorderTracksEnded(r)
  \/ \E r \in DOMAIN recorders, size \in {0, 1} : OnStop(r, size)
  \/ \E r \in DOMAIN recorders, throws \in BOOLEAN : StubSettle(r, throws)

SpecMic2 == InitMic2 /\ [][NextMic2]_vars

(* The coordinator of background.ts by itself: START_TRANSCRIPTION, for     *)
(* either audio source, and STOP_TRANSCRIPTION arrive in any order; its     *)
(* broadcasts reach a panel that has no exchange open.                      *)
InitCoord == InitWith("en", "microphone", BOOLEAN, Limits(MaxCoordStreams, MaxPending, 0, "en"))

NextCoord ==
  \/ \E settings \in SettingsInputs : SendStartTranscription(settings)
  \/ SendStopTranscription
  \/ CoordReceiveA
  \/ \E i \in DOMAIN startReqs : StartSetResolves(i)
  \/ \E i \in DOMAIN startReqs, tab \in Tabs : StartQueryResolves(i, tab)
  \/ \E i \in DOMAIN startReqs, raw \in CaptureErrors : StartCaptureFails(i, raw)
  \/ \E i \in DOMAIN startReqs : StartCaptureEmpty(i)
  \/ \E i \in DOMAIN startReqs : StartCaptureSucceeds(i)
  \/ \E i \in DOMAIN stopReqs : StopGetResolves(i)
  \/ \E i \in DOMAIN stopReqs : StopSetResolves(i)
  \/ PanelReceiveT2

SpecCoord == InitCoord /\ [][NextCoord]_vars

(* The settings store and everything that reaches it: the coordinator of     *)
(* background.ts with its four message types and the Options page, which     *)
(* uses chrome.storage.local itself.                                         *)
InitSettings == InitWith("en", "microphone", {TRUE}, Limits(MaxSettingsStreams, MaxPending, 0, "en"))

NextSettings ==
  \/ \E settings \in SettingsInputs :
       /\ Len(startReqs) + InFlight("START_TRANSCRIPTION") < MaxSettingsStarts
       /\ SendStartTranscription(settings)
  \/ /\ Len(stopReqs) + InFlight("STOP_TRANSCRIPTION") < MaxSettingsStops
     /\ SendStopTranscription
  \/ SendGetSettings
  \/ \E settings \in SaveInputs : SendSaveSettings(settings)
  \/ CoordReceiveA
  \/ \E i \in DOMAIN startReqs : StartSetResolves(i)
  \/ \E i \in DOMAIN startReqs, tab \in Tabs : StartQueryResolves(i, tab)
  \/ \E i \in DOMAIN startReqs, raw \in CaptureErrors : StartCaptureFails(i, raw)
  \/ \E i \in DOMAIN startReqs : StartCaptureEmpty(i)
  \/ \E i \in DOMAIN startReqs : StartCaptureSucceeds(i)
  \/ \E i \in DOMAIN stopReqs : StopGetResolves(i)
  \/ \E i \in DOMAIN stopReqs : StopSetResolves(i)
  \/ \E i \in DOMAIN settingsReqs : GetSettingsResolves(i)
  \/ \E i \in DOMAIN settingsReqs : SaveSettingsResolves(i)
  \/ \E i \in DOMAIN settingsReqs : SettingsReplyTaken(i)
  \/ LoadSettingsResolves
  \/ \E choice \in SettingChoices : HandleSettingChange(choice[1], choice[2])
  \/ HandleSave
  \/ HandleSaveResolves
  \/ SaveSuccessHides
  \/ PanelReceiveT2

SpecSettings == InitSettings /\ [][NextSettings]_vars

(* The coordinator of background.ts and the content script: the reports of  *)
(* the content script arrive between the messages of the extension pages.   *)
InitObserver == InitWith("en", "microphone", {TRUE}, Limits(MaxSettingsStreams, MaxPending, 0, "en"))

NextObserver ==
  \/ \E type \in ObserverTypes : ObserverSends(type)
  \/ \E settings \in SettingsInputs :
       /\ Len(startReqs) + InFlight("START_TRANSCRIPTION") < MaxSettingsStarts
       /\ SendStartTranscription(settings)
  \/ /\ Len(stopReqs) + InFlight("STOP_TRANSCRIPTION") < MaxSettingsStops
     /\ SendStopTranscription
  \/ SendGetSettings
  \/ \E settings \in SaveInputs : SendSaveSettings(settings)
  \/ CoordReceiveA
  \/ \E i \in DOMAIN startReqs : StartSetResolves(i)
  \/ \E i \in DOMAIN startReqs, tab \in Tabs : StartQueryResolves(i, tab)
  \/ \E i \in DOMAIN startReqs, raw \in CaptureErrors : StartCaptureFails(i, raw)
  \/ \E i \in DOMAIN startReqs : StartCaptureEmpty(i)
  \/ \E i \in DOMAIN startReqs : StartCaptureSucceeds(i)
  \/ \E i \in DOMAIN stopReqs : StopGetResolves(i)
  \/ \E i \in DOMAIN stopReqs : StopSetResolves(i)
  \/ \E i \in DOMAIN settingsReqs : GetSettingsResolves(i)
  \/ \E i \in DOMAIN settingsReqs : SaveSettingsResolves(i)
  \/ \E i \in DOMAIN settingsReqs : SettingsReplyTaken(i)
  \/ PanelReceiveT2

SpecObserver == InitObserver /\ [][NextObserver]_vars

(* The hook of useAudioRecording.ts with the coordinator of background.ts,   *)
(* the pair that src/src holds: the hook records from the microphone and its *)
(* listener takes what the coordinator broadcasts for the START_TRANSCRIPTION *)
(* messages of an extension page. Every recording of these sessions          *)
(* delivers audio: onstop finds one chunk more.                              *)
InitHook == InitWith("en", "microphone", {TRUE}, Limits(MaxHookStreams, MaxHookPending, 0, "en"))

\* the active tab of these sessions: none, or an ordinary page
HookTabs == {NoTab, Tab(7, <<"https", "://", "example.com">>)}

\* the getUserMedia failure of these sessions: the permission is denied
HookMicErrors == {e \in PlatformMicErrors : e.name = "NotAllowedError"}

NextHook ==
  \/ StartRecording
  \/ StopRecording
  \/ \E c \in Slots : MicGranted(c)
  \/ \E c \in Slots, e \in HookMicErrors : MicRejected(c, e)
  \/ \E r \in DOMAIN recorders : RecorderTracksEnded(r)
  \/ \E r \in DOMAIN recorders : OnStop(r, 1)
  \/ \E r \in DOMAIN recorders, throws \in BOOLEAN : StubSettle(r, throws)
  \/ PanelReceive
  \/ \E settings \in SettingsInputs :
       /\ Len(startReqs) + InFlight("START_TRANSCRIPTION") < MaxHookStarts
       /\ SendStartTranscription(settings)
  \/ CoordReceiveA
  \/ \E i \in DOMAIN startReqs : StartSetResolves(i)
  \/ \E i \in DOMAIN startReqs, tab \in HookTabs : StartQueryResolves(i, tab)
  \/ \E i \in DOMAIN startReqs, raw \in CaptureErrors : StartCaptureFails(i, raw)
  \/ \E i \in DOMAIN startReqs : StartCaptureEmpty(i)
  \/ \E i \in DOMAIN startReqs : StartCaptureSucceeds(i)
  \/ \E i \in DOMAIN stopReqs : StopGetResolves(i)
  \/ \E i \in DOMAIN stopReqs : StopSetResolves(i)

SpecHook == InitHook /\ [][NextHook]_vars

(* The hook on the microphone through three sessions, with the browser's     *)
(* event loop: an event that is due (the answer of getUserMedia, a           *)
(* recorder's stop after its tracks ended, onstop, the stub's timer) is      *)
(* delivered; the user's clicks are under no obligation.                     *)
InitLeak == InitWith("en", "microphone", {TRUE}, Limits(MaxLeakStreams, MaxLeakPending, 0, "en"))

NextLeak ==
  \/ StartRecording
  \/ StopRecording
  \/ \E c \in Slots : MicGranted(c)
  \/ \E c \in Slots, e \in HookMicErrors : MicRejected(c, e)
  \/ \E r \in DOMAIN recorders : RecorderTracksEnded(r)
  \/ \E r \in DOMAIN recorders, size \in {0, 1} : OnStop(r, size)
  \/ \E r \in DOMAIN recorders, throws \in BOOLEAN : StubSettle(r, throws)

EventLoop ==
  /\ WF_vars(\E c \in Slots : MicGranted(c) \/ \E e \in HookMicErrors : MicRejected(c, e))
  /\ WF_vars(\E r \in DOMAIN recorders : RecorderTracksEnded(r))
  /\ WF_vars(\E r \in DOMAIN recorders, size \in {0, 1} : OnStop(r, size))
  /\ WF_vars(\E r \in DOMAIN recorders, throws \in BOOLEAN : StubSettle(r, throws))

SpecLeak == InitLeak /\ [][NextLeak]_vars /\ EventLoop

(* The coordinator from the moment onInstalled fires, on an empty store or   *)
(* on the store of a previous version, with the settings messages, the stop  *)
(* messages and the Options page at work meanwhile.                          *)
InitInstall ==
  /\ InitBase("en", "microphone", {TRUE}, Limits(MaxSettingsStreams, MaxPending, 0, "en"))
  /\ storage \in InstallStores
  /\ install = "get"
  /\ media = <<>> /\ audioChangeTimer = 0 /\ timers = <<>> /\ now = 0 /\ lastMutation = 0

NextInstall ==
  \/ InstallGetResolves
  \/ InstallSetResolves
  \/ /\ Len(stopReqs) + InFlight("STOP_TRANSCRIPTION") < MaxSettingsStops
     /\ SendStopTranscription
  \/ SendGetSettings
  \/ \E settings \in SaveInputs : SendSaveSettings(settings)
  \/ CoordReceiveA
  \/ \E i \in DOMAIN stopReqs : StopGetResolves(i)
  \/ \E i \in DOMAIN stopReqs : StopSetResolves(i)
  \/ \E i \in DOMAIN settingsReqs : GetSettingsResolves(i)
  \/ \E i \in DOMAIN settingsReqs : SaveSettingsResolves(i)
  \/ \E i \in DOMAIN settingsReqs : SettingsReplyTaken(i)
  \/ LoadSettingsResolves
  \/ \E choice \in SettingChoices : HandleSettingChange(choice[1], choice[2])
  \/ HandleSave
  \/ HandleSaveResolves
  \/ SaveSuccessHides
  \/ PanelReceiveT2

SpecInstall == InitInstall /\ [][NextInstall]_vars

(* A page with the content script loaded: its first monitorAudioChanges has  *)
(* run over the media elements the page had, and the MutationObserver        *)
(* watches the body. The page's clock advances and a timer that is due is    *)
(* run by the window; the coordinator takes what the script sends.           *)
PageLoads == { <<>>, MonitorAudioChanges(<<NewMedia>>) }

InitPage ==
  /\ InitBase("en", "microphone", {TRUE}, Limits(MaxSettingsStreams, MaxPending, 0, "en"))
  /\ storage = InitialData
  /\ install = "done"
  /\ media \in PageLoads
  /\ audioChangeTimer = 0 /\ timers = <<>> /\ now = 0 /\ lastMutation = 0

NextPage ==
  \/ \E addsMedia \in BOOLEAN : Mutation(addsMedia)
  \/ Tick
  \/ \E i \in DOMAIN timers : RescanTimerFires(i)
  \/ \E e \in DOMAIN media : MediaPlays(e)
  \/ \E e \in DOMAIN media : MediaPauses(e)
  \/ CoordReceiveA

WindowTimers ==
  /\ WF_vars(Tick)
  /\ WF_vars(\E i \in DOMAIN timers : RescanTimerFires(i))

SpecPage == InitPage /\ [][NextPage]_vars /\ WindowTimers


(***************************** claims **************************************)
ActiveRecorders == {r \in DOMAIN recorders : recorders[r].state = "recording"}
LiveStreams == {s \in DOMAIN streams : streams[s].tracks = "live"}
ResultsOf(r) == {i \in DOMAIN results : results[i].rec = r}

\* C2: whatever the interleaving of startRecording calls, the panel never has
\* two sessions at once: at most one live stream and at most one active recorder.
C2_OneSessionAtATime ==
  /\ Cardinality(ActiveRecorders) <= 1
  /\ Cardinality(LiveStreams) <= 1

\* C3: a stopRecording issued while a start is pending is applied once the
\* session reaches Recording: that session is never seen recording with its
\* recorder active and the stop forgotten.
C3_StopWhileStartingApplied ==
  \A r \in DOMAIN recorders :
    recorders[r].hist.stopWhileStarting =>
      ~(isRecording /\ mediaRecorderRef = r /\ recorders[r].state = "recording")

\* C7: a stopRecording call made when no session is active (no recorder, or
\* isRecording false) changes nothing: no panel state, no stream or recorder,
\* no message sent, no invocation resumed or dropped.
C7_StopWhenIdleIsNoOp ==
  [][ (lastStop' = "onIdle" /\ lastStop # "onIdle") =>
        /\ UNCHANGED <<panelVars, propVars, exchanges, heapVars, toCoord, toPanel, coordVars, settingsVars>>
        /\ \A c \in Slots : calls'[c].pc = calls[c].pc ]_vars

C7_Witness == lastStop = "onIdle" /\ mediaRecorderRef = 0 /\ toCoord = <<>>

\* C8: however often stopRecording is called on a session, the stop is applied
\* once: one STOP_TRANSCRIPTION, one stop event (so at most one result), and
\* once applied the recorder is inactive and the session's tracks are stopped.
C8_StopTwiceReleasesOnce ==
  \A r \in DOMAIN recorders :
    /\ recorders[r].stopNotified <= 1
    /\ Cardinality(ResultsOf(r)) <= 1
    /\ recorders[r].stopNotified = 1 =>
         /\ recorders[r].state = "inactive"
         /\ streams[recorders[r].stream].tracks = "ended"

C8_Witness ==
  /\ lastStop = "onIdle" /\ ~isRecording /\ mediaRecorderRef # 0
  /\ recorders[mediaRecorderRef].stopNotified = 1
  /\ recorders[mediaRecorderRef].ev = "done"

\* C10: a microphone session started by startRecording, stopped by
\* stopRecording and settled has produced exactly one result, with confidence
\* 0.95 and the language requested at its start, and its tracks are stopped.
C10_MicSessionOneResult ==
  \A r \in DOMAIN recorders :
    (/\ recorders[r].hist.via = "startRecording"
     /\ streams[recorders[r].stream].src = "microphone"
     /\ recorders[r].stopNotified = 1
     /\ recorders[r].ev = "done") =>
      /\ Cardinality(ResultsOf(r)) = 1
      /\ \A i \in ResultsOf(r) :
           /\ results[i].confidence = 95
           /\ results[i].language = recorders[r].hist.reqLang
      /\ streams[recorders[r].stream].tracks = "ended"

C10_Witness ==
  \E r \in DOMAIN recorders :
    /\ recorders[r].hist.via = "startRecording"
    /\ recorders[r].stopNotified = 1 /\ recorders[r].ev = "done"
    /\ recorders[r].hist.reqLang = "es"
    /\ Len(recorders[r].blob) = MaxChunks
    /\ Cardinality(ResultsOf(r)) = 1

\* C5: a startRecording that waits for the reply to START_TAB_CAPTURE does
\* not wait beyond ten seconds: by then it has failed with Timeout.
C5_TabRequestTimesOut ==
  \A c \in Slots : calls[c].pc = "awaitTabReply" => calls[c].waited < TimeoutMs

\* C9: a START_TAB_CAPTURE request that finds an active tab on a chrome:// or
\* chrome-extension:// URL is answered with the restricted-page error and
\* never calls chrome.tabCapture.capture.
C9_IsRestrictedUrl(url) ==
  /\ url # Null
  /\ Len(url) >= 2
  /\ url[1] \in {"chrome", "chrome-extension"} /\ url[2] = "://"

C9_RestrictedPageFailsFast ==
  \A c \in Slots :
    (/\ tabReqs[c].pc \in {"capturing", "replied"}
     /\ tabReqs[c].tab.present /\ tabReqs[c].tab.id # 0
     /\ C9_IsRestrictedUrl(tabReqs[c].tab.url)) =>
      /\ tabReqs[c].pc = "replied"
      /\ tabReqs[c].reply.error = RestrictedPageMsg
      /\ tabReqs[c].captureCalls = 0

C9_Witness ==
  \E c \in Slots :
    /\ tabReqs[c].pc = "replied"
    /\ tabReqs[c].tab = Tab(7, <<"chrome-extension", "://", "abcdef/sidepanel.html">>)
    /\ tabReqs[c].reply.error = RestrictedPageMsg

\* C1: once a START_TRANSCRIPTION for the tab source has been refused because
\* the active tab is on a chrome:// or chrome-extension:// URL, the error
\* broadcast is the restricted-page one and the stored settings say that no
\* recording is going on.
C1_RestrictedStartLeavesStorageIdle ==
  \A i \in DOMAIN startReqs :
    (/\ startReqs[i].pc = "done"
     /\ startReqs[i].data.audioSource = "tab"
     /\ startReqs[i].tab.present /\ startReqs[i].tab.id # 0
     /\ C9_IsRestrictedUrl(startReqs[i].tab.url)) =>
      /\ startReqs[i].sent = <<TranscriptionError(RestrictedPageMsg)>>
      /\ storage.settings.isRecording = FALSE

\* C4: in an exchange of the listener-based startRecording, the timer that
\* fires on a pending promise rejects it with Timeout and removes the listener;
\* a settled promise keeps its outcome; nothing that arrives after the timer
\* fired makes the exchange set a recorder up; and the timer that fires after
\* the reply was consumed changes neither the outcome nor the panel.
C4_TimeoutExchange ==
  [][ \A i \in DOMAIN exchanges :
        LET x == exchanges[i]
            y == exchanges'[i]
            fires == x.timer = "armed" /\ y.timer = "fired"
        IN /\ (fires /\ x.outcome = "pending") =>
                (y.outcome = "rejected" /\ y.reason = TimeoutMsg /\ ~y.listener)
           /\ (fires /\ x.outcome # "pending") =>
                /\ y.outcome = x.outcome /\ y.reason = x.reason /\ y.setups = x.setups
                /\ UNCHANGED <<panelVars, heapVars, toCoord, toPanel>>
           /\ x.outcome # "pending" => (y.outcome = x.outcome /\ y.reason = x.reason)
           /\ x.timer = "fired" => (y.setups = x.setups /\ ~y.listener) ]_vars

C4_Witness ==
  /\ Len(exchanges) = 2 /\ Len(startReqs) = 2
  /\ \A i \in DOMAIN startReqs : startReqs[i].pc = "done"
  /\ toPanel = <<>>
  /\ exchanges[1].reason = TimeoutMsg /\ exchanges[1].setups = 0
  /\ exchanges[2].outcome = "resolved" /\ exchanges[2].timer = "fired"

\* C6: a tab stream captured for a request the panel has given up on after its
\* timeout does not stay open without an owner: once its AUDIO_STREAM_READY
\* has been dispatched and no recorder took it, its tracks are stopped.
C6_LateStreamReleased ==
  \A s \in DOMAIN streams :
    (/\ streams[s].src = "tab"
     /\ \E i \in DOMAIN exchanges : exchanges[i].reason = TimeoutMsg
     /\ \A k \in DOMAIN toPanel : toPanel[k].stream # s
     /\ \A r \in DOMAIN recorders : recorders[r].stream # s) =>
      streams[s].tracks = "ended"

\* nothing is in flight: no message queued, no invocation, handler, timer or
\* recorder event pending
Quiescent ==
  /\ toCoord = <<>> /\ toPanel = <<>>
  /\ \A c \in Slots : calls[c].pc = "idle" /\ tabReqs[c].pc = "idle"
  /\ stopReqs = <<>>
  /\ \A i \in DOMAIN startReqs : startReqs[i].pc = "done"
  /\ \A i \in DOMAIN exchanges : exchanges[i].timer = "fired"
  /\ \A r \in DOMAIN recorders :
       /\ recorders[r].ev \notin {"stop", "stub"}
       /\ ~(recorders[r].state = "recording" /\ streams[recorders[r].stream].tracks = "ended")

\* C11: whenever nothing is in flight, the stored Settings.isRecording is
\* true exactly when the panel has an active recording session.
C11_StoreReflectsCapture ==
  Quiescent => (storage.settings.isRecording <=> SessionActive)

\* C12: while the panel is Recording (isRecording true, its recorder active
\* and no stop issued on it), the tracks of its current stream are live.
C12_RecordingStreamLive ==
  (/\ isRecording
   /\ mediaRecorderRef # 0 /\ streamRef # 0
   /\ recorders[mediaRecorderRef].state = "recording"
   /\ recorders[mediaRecorderRef].stopNotified = 0) =>
    streams[streamRef].tracks = "live"

\* C13: for a session stopped by stopRecording, the tracks of its stream are
\* stopped by the time the stub runs, and from the stop until the stub has
\* settled no new startRecording is taken up.
C13_ReleaseThenStubThenIdle ==
  [][ \A r \in DOMAIN recorders :
        (recorders[r].stopNotified = 1 /\ recorders[r].ev \in {"stop", "stub"}) =>
          /\ recorders[r].ev = "stub" => streams[recorders[r].stream].tracks = "ended"
          /\ \A c \in Slots : calls[c].pc = "idle" => calls'[c].pc = "idle" ]_vars

\* whether the text `sub` occurs in `str`
ContainsText(str, sub) ==
  \E k \in 0..(Len(str) - Len(sub)) : SubSeq(str, k + 1, k + Len(sub)) = sub

\* C14: no error the coordinator broadcasts for a failed acquisition, and no
\* reason a start is rejected with in the panel, contains the platform's own
\* error text.
C14_NoRawPlatformText ==
  \A raw \in CaptureErrors :
    /\ \A k \in DOMAIN toPanel :
         toPanel[k].type = "TRANSCRIPTION_ERROR" => ~ContainsText(toPanel[k].error, raw)
    /\ \A i \in DOMAIN exchanges : ~ContainsText(exchanges[i].reason, raw)

RecognizedMicErrors ==
  {e \in PlatformMicErrors :
     e.name \in {"NotAllowedError", "NotFoundError", "NotReadableError", "OverconstrainedError"}}

CategoryMessages(e) == {GetMicrophoneStreamError(e).message, StartRecordingErrorMessage(e)}

\* C16: whenever a startRecording waits for the microphone, a rejection of any
\* of the four named categories makes the panel show a message of that
\* category, not the generic one and not another category's.
C16_CategoryMessageShown ==
  \A c \in Slots, e \in RecognizedMicErrors :
    (calls[c].pc = "awaitMic" /\ calls[c].kind = "startRecording") =>
      ENABLED (MicRejected(c, e) /\ error' \in CategoryMessages(e))

\* C17: a handled START_TRANSCRIPTION has broadcast nothing before it is
\* done and exactly one message when it is done: START_MICROPHONE_RECORDING
\* for the microphone, AUDIO_STREAM_READY for a capture that gave a stream,
\* TRANSCRIPTION_ERROR for every failure.
C17_OneOutcomePerStart ==
  \A i \in DOMAIN startReqs :
    LET h == startReqs[i]
    IN /\ h.pc # "done" => h.sent = <<>>
       /\ h.pc = "done" =>
            /\ Len(h.sent) = 1
            /\ h.sent[1].type \in
                 {"START_MICROPHONE_RECORDING", "AUDIO_STREAM_READY", "TRANSCRIPTION_ERROR"}
            /\ h.sent[1].type = "START_MICROPHONE_RECORDING" <=> h.data.audioSource = "microphone"
            /\ h.sent[1].type = "AUDIO_STREAM_READY" =>
                 (h.captureCalls = 1 /\ h.sent[1].stream \in DOMAIN streams)

C17_Witness ==
  /\ Len(startReqs) = 2
  /\ startReqs[1].pc = "done" /\ startReqs[2].pc = "done"
  /\ startReqs[1].sent[1].type = "TRANSCRIPTION_ERROR" /\ startReqs[1].captureCalls = 1
  /\ startReqs[2].sent[1].type = "START_MICROPHONE_RECORDING"

Appended(type) ==
  /\ Len(toPanel') = Len(toPanel) + 1
  /\ toPanel'[Len(toPanel')].type = type

\* C19: a START_TAB_CAPTURE request is answered once, when its handler
\* settles, with success or with an error that has a reason; the answer is not
\* changed before it is delivered; and AUDIO_STREAM_READY is broadcast in the
\* step that answers, exactly when the answer is success.
C19_OneReplyReadyIffSuccess ==
  [][ /\ \A c \in Slots :
           (tabReqs[c].pc # "replied" /\ tabReqs'[c].pc = "replied") =>
             /\ tabReqs[c].pc \in {"query", "capturing"}
             /\ \/ tabReqs'[c].reply = [success |-> TRUE, error |-> Null]
                \/ /\ tabReqs'[c].reply.success = FALSE
                   /\ tabReqs'[c].reply.error # Null
             /\ Appended("AUDIO_STREAM_READY") <=> tabReqs'[c].reply.success
      /\ \A c \in Slots :
           tabReqs[c].pc = "replied" =>
             \/ tabReqs'[c] = tabReqs[c]
             \/ /\ tabReqs'[c] = IdleReq
                /\ calls[c].pc = "awaitTabReply"
                /\ calls'[c].pc # "awaitTabReply"
      /\ Appended("AUDIO_STREAM_READY") =>
           \E c \in Slots : tabReqs[c].pc = "capturing" /\ tabReqs'[c].pc = "replied"
    ]_vars

C19_Witness ==
  \E c \in Slots :
    /\ tabReqs[c].pc = "replied"
    /\ tabReqs[c].reply.success
    /\ tabReqs[c].captureCalls = 1
    /\ toPanel # <<>>
    /\ toPanel[Len(toPanel)].type = "AUDIO_STREAM_READY"

SessionState ==
  IF \E c \in Slots : calls[c].pc # "idle" THEN "Starting"
  ELSE IF isRecording THEN "Recording"
  ELSE IF \E r \in DOMAIN recorders : recorders[r].ev \in {"stop", "stub"} THEN "Stopping"
  ELSE "Idle"

\* the message types whose handling by the coordinator writes the stored
\* settings and broadcasts
NotifyingTypes == {"START_TRANSCRIPTION", "STOP_TRANSCRIPTION"}

\* C21: every step that changes the state of the capture session hands the
\* coordinator exactly one message whose handling updates the stored settings
\* and broadcasts.
C21_TransitionNotifiesOnce ==
  [][ SessionState' # SessionState =>
        /\ Len(toCoord') = Len(toCoord) + 1
        /\ toCoord'[Len(toCoord')].type \in NotifyingTypes ]_vars

\* the recorders that a message listener set up on stream s, which one
\* AUDIO_STREAM_READY carried
SetupsFrom(s) ==
  {r \in DOMAIN recorders : recorders[r].stream = s /\ recorders[r].hist.via = "listener"}

\* C22: a registered messageListener handles at most one matching broadcast,
\* and one AUDIO_STREAM_READY sets up at most one recorder.
C22_ReplyConsumedOnce ==
  /\ \A i \in DOMAIN exchanges : exchanges[i].setups <= 1
  /\ \A s \in DOMAIN streams : Cardinality(SetupsFrom(s)) <= 1

\* C23: the store changes only in a step of one of the coordinator's message
\* handlers (start, stop, getSettings, saveSettings).
C23_OnlyCoordinatorWritesStore ==
  [][ storage' # storage =>
        \/ startReqs' # startReqs
        \/ stopReqs' # stopReqs
        \/ settingsReqs' # settingsReqs ]_vars

\* C24: a startRecording whose acquisition fails ends there: when the reply
\* to its tab request is an error, or when its microphone request is rejected,
\* the call is over and waits for nothing more.
C24_FailureIsTerminal ==
  [][ \A c \in Slots :
        /\ (/\ calls[c].pc = "awaitTabReply"
            /\ tabReqs[c].pc = "replied" /\ tabReqs[c].reply.error # Null
            /\ calls'[c].pc # calls[c].pc) => calls'[c].pc = "idle"
        /\ (/\ calls[c].pc = "awaitMic"
            /\ calls'[c].pc # calls[c].pc
            /\ Len(streams') = Len(streams)) => calls'[c].pc = "idle" ]_vars

\* C25: when the promise of a start is rejected (error broadcast, missing
\* stream or timeout), the panel is left idle, not loading, and showing an error.
C25_FailedStartSurfaced ==
  [][ \A i \in DOMAIN exchanges :
        (exchanges[i].outcome = "pending" /\ exchanges'[i].outcome = "rejected") =>
          /\ error' # Null
          /\ ~isLoading'
          /\ ~isRecording' ]_vars

\* the step in which the request of call c fails
TabRequestFailed(c) ==
  /\ calls[c].pc = "awaitTabReply" /\ calls'[c].pc # "awaitTabReply"
  /\ \/ tabReqs[c].pc # "replied"
     \/ tabReqs[c].reply.error # Null

\* the step in which the microphone is granted to call c on the tab source
FallbackGranted(c) ==
  /\ calls[c].pc = "awaitMic" /\ calls[c].kind = "startRecording"
  /\ audioSource = "tab"
  /\ calls'[c].pc = "idle"
  /\ Len(streams') = Len(streams) + 1

\* the panel is recording on the microphone stream just acquired
RecordingOnNewMicStream ==
  /\ isRecording'
  /\ mediaRecorderRef' # 0 /\ streamRef' = Len(streams')
  /\ recorders'[mediaRecorderRef'].stream = streamRef'
  /\ recorders'[mediaRecorderRef'].state = "recording"
  /\ streams'[streamRef'].src = "microphone"

OwnChunksInOrder(r) ==
  LET blob == recorders[r].blob
  IN /\ \A k \in DOMAIN blob : blob[k].rec = r
     /\ \A j, k \in DOMAIN blob : j < k => blob[j].id < blob[k].id

\* C27: the blob handed to the stub when a recorder stops is made of the
\* chunks of that recorder only, in arrival order, and once the stub has
\* settled and no newer recorder exists the chunk buffer is empty.
C27_PayloadIsSessionChunks ==
  \A r \in DOMAIN recorders :
    /\ recorders[r].ev \in {"stub", "done"} => OwnChunksInOrder(r)
    /\ (recorders[r].ev = "done" /\ r = Len(recorders)) => audioChunksRef = <<>>

\* the fields of TranscriptionSettings
SettingsFields == {"targetLanguage", "defaultLanguage", "llmModel", "isRecording", "audioSource"}

\* C28: the record stored under 'settings' always has every field of
\* TranscriptionSettings.
C28_StoredSettingsComplete ==
  /\ "settings" \in DOMAIN storage
  /\ SettingsFields \subseteq DOMAIN storage.settings

\* the message types the onMessage listener of background.ts has a case for
HandledTypes == {"START_TRANSCRIPTION", "STOP_TRANSCRIPTION", "GET_SETTINGS", "SAVE_SETTINGS"}

\* C29: the step in which the coordinator takes a message of a type it has no
\* case for (the content script's reports among them) changes nothing but the
\* queue: the store, the handlers running, the captured streams, the
\* broadcasts and the pending replies stay as they are.
C29_ObserverMessagesAdvisory ==
  [][ (/\ toCoord # <<>>
       /\ Head(toCoord).type \notin HandledTypes
       /\ toCoord' = Tail(toCoord)) =>
        /\ UNCHANGED <<storage, startReqs, stopReqs, tabReqs, settingsReqs, pageVars>>
        /\ UNCHANGED <<streams, toPanel>> ]_vars

\* a report of the content script is about to be taken while a start handler
\* is capturing and the store says recording
C29_Witness ==
  /\ toCoord # <<>>
  /\ Head(toCoord).type \in ObserverTypes
  /\ ENABLED CoordReceiveA
  /\ storage.settings.isRecording
  /\ \E i \in DOMAIN startReqs : startReqs[i].pc = "capturing"

\* the step in which the stub of recorder r settles and onstop cleans up
CleanupRuns(r) == recorders[r].ev = "stub" /\ recorders'[r].ev = "done"

\* C30: the clean-up at the end of onstop releases the stream of its own
\* session and no other: the tracks of the own stream are stopped after it,
\* and every other stream, that of a newer session included, is as before.
C30_CleanupReleasesOwnStreamOnly ==
  [][ \A r \in DOMAIN recorders :
        CleanupRuns(r) =>
          /\ streams'[recorders[r].stream].tracks = "ended"
          /\ \A s \in DOMAIN streams :
               s # recorders[r].stream => streams'[s] = streams[s]
    ]_vars

\* the recorders that record on a stream whose tracks are live
LiveRecorders ==
  {r \in DOMAIN recorders :
     recorders[r].state = "recording" /\ streams[recorders[r].stream].tracks = "live"}

\* C31: isRecording is true exactly when some recorder is active on a stream
\* that has not been released.
C31_RecordingIffLiveRecorder == isRecording <=> LiveRecorders # {}

\* C32: a stream handed to setupMediaRecorder is released once its session is
\* stopped: from any state where the hook is not recording, every stream it
\* holds a recorder on has its tracks ended at some later time.
C32_StreamEventuallyReleased ==
  \A s \in 1..MaxLeakStreams :
    (s \in DOMAIN streams /\ ~isRecording)
      ~> (s \in DOMAIN streams /\ streams[s].tracks = "ended")

\* C33: the step that ends handleStopTranscription changes only the isRecording
\* field of the persisted settings: every other field keeps the value the store
\* held just before, whatever was written since the handler read the record.
C33_StopWritesOnlyIsRecording ==
  [][ /\ Len(stopReqs') < Len(stopReqs)
      /\ "settings" \in DOMAIN storage
      => /\ "settings" \in DOMAIN storage'
         /\ DOMAIN storage'.settings \ {"isRecording"} = DOMAIN storage.settings \ {"isRecording"}
         /\ \A f \in DOMAIN storage.settings \ {"isRecording"} :
              storage'.settings[f] = storage.settings[f]
    ]_vars

\* C34: the step that takes the answer of the tab query reports the first
\* failure that applies, in the order no active tab, restricted page, capture
\* API unavailable, and calls the platform capture exactly when none of the
\* three applies; the step that takes the capture's callback reports a denied
\* capture or an empty stream, or delivers the stream, and a stream is
\* delivered in no other step.
C34_FirstFailureInOrder ==
  [][ /\ \A c \in Slots :
           (tabReqs[c].pc = "query" /\ tabReqs'[c].pc # "query") =>
             LET tab == tabReqs'[c].tab
                 req == tabReqs'[c]
             IN /\ NoTabId(tab) => req.reply = [success |-> FALSE, error |-> NoActiveTabMsg]
                /\ (~NoTabId(tab) /\ IsRestricted(tab)) =>
                      req.reply = [success |-> FALSE, error |-> RestrictedPageMsg]
                /\ (~NoTabId(tab) /\ ~IsRestricted(tab) /\ ~tabCaptureApi) =>
                      req.reply = [success |-> FALSE, error |-> ApiUnavailableMsg]
                /\ (NoTabId(tab) \/ IsRestricted(tab) \/ ~tabCaptureApi) =>
                      (req.pc = "replied" /\ req.captureCalls = tabReqs[c].captureCalls)
                /\ (~NoTabId(tab) /\ ~IsRestricted(tab) /\ tabCaptureApi) =>
                      (req.pc = "capturing" /\ req.captureCalls = tabReqs[c].captureCalls + 1)
                /\ ~Appended("AUDIO_STREAM_READY")
      /\ \A c \in Slots :
           (tabReqs[c].pc = "capturing" /\ tabReqs'[c].pc # "capturing") =>
             /\ tabReqs'[c].pc = "replied"
             /\ \/ /\ tabReqs'[c].reply = [success |-> TRUE, error |-> Null]
                   /\ Appended("AUDIO_STREAM_READY")
                \/ /\ tabReqs'[c].reply.success = FALSE
                   /\ \/ tabReqs'[c].reply.error = EmptyStreamMsg
                      \/ \E raw \in CaptureErrors : tabReqs'[c].reply.error = CaptureFailedMsg(raw)
                   /\ ~Appended("AUDIO_STREAM_READY")
      /\ Appended("AUDIO_STREAM_READY") =>
           \E c \in Slots : tabReqs[c].pc = "capturing" /\ tabReqs[c].captureCalls = 1
    ]_vars

\* a request on a restricted page with no capture API was answered with the
\* restricted-page error, and the capture was not called
C34_Witness ==
  \E c \in Slots :
    /\ tabReqs[c].pc = "replied"
    /\ ~NoTabId(tabReqs[c].tab) /\ IsRestricted(tabReqs[c].tab) /\ ~tabCaptureApi
    /\ tabReqs[c].reply.error = RestrictedPageMsg
    /\ tabReqs[c].captureCalls = 0

\* C35: the step that answers GET_SETTINGS replies with the settings record the
\* store holds, or with DEFAULT_SETTINGS when it holds none; the step that
\* answers SAVE_SETTINGS(s) has stored exactly s. So a GET_SETTINGS answered
\* while the store is as that SAVE_SETTINGS left it replies with s.
C35_GetRepliesStoredSettings ==
  [][ \A i \in DOMAIN settingsReqs :
        (settingsReqs[i].pc = "storage" /\ Len(settingsReqs') = Len(settingsReqs)
           /\ settingsReqs'[i].pc = "replied") =>
          /\ settingsReqs[i].kind = "get" =>
               /\ storage' = storage
               /\ settingsReqs'[i].reply =
                    <<IF "settings" \in DOMAIN storage THEN storage.settings
                      ELSE DEFAULT_SETTINGS>>
          /\ settingsReqs[i].kind = "save" =>
               /\ storage'.settings = settingsReqs[i].data[1]
               /\ \A k \in DOMAIN storage \ {"settings"} :
                    k \in DOMAIN storage' /\ storage'[k] = storage[k]
    ]_vars

\* a GET_SETTINGS was answered with the record a SAVE_SETTINGS stored
C35_Witness ==
  \E i \in DOMAIN settingsReqs, s \in SaveInputs :
    /\ settingsReqs[i].kind = "get" /\ settingsReqs[i].pc = "replied"
    /\ settingsReqs[i].reply = <<s>>
    /\ storage.settings = s

\* C36: the onInstalled handler writes DEFAULT_SETTINGS and the empty lists
\* only to a store without settings record, and leaves a store with a
\* settings record as it is.
C36_InstallInitializesOnlyEmptyStore ==
  [][ install' # install =>
        IF "settings" \in DOMAIN storage
          THEN storage' = storage
          ELSE /\ install' = "set" => storage' = storage
               /\ install' = "done" => storage' = InitialData
    ]_vars

\* the messages a step has sent to the coordinator
NewlySent == SubSeq(toCoord', Len(toCoord) + 1, Len(toCoord'))

\* C37 as stated: no media element ever has more than one play and one pause
\* listener of the observer, and every play (pause) of a media element sends
\* exactly one AUDIO_STARTED (AUDIO_STOPPED).
C37_OneEventOneMessage ==
  [][ /\ \A e \in DOMAIN media' : media'[e].play <= 1 /\ media'[e].pause <= 1
      /\ \A e \in DOMAIN media :
           /\ (media[e].paused /\ ~media'[e].paused) => NewlySent = Sent("AUDIO_STARTED", 1)
           /\ (~media[e].paused /\ media'[e].paused) => NewlySent = Sent("AUDIO_STOPPED", 1)
    ]_vars

\* C37, amended: no media element ever has more than one play and one pause
\* listener, an element has them exactly when it carries the attribute, and a
\* play (pause) of an element that carries it sends exactly one AUDIO_STARTED
\* (AUDIO_STOPPED); a play or pause of an element that no scan has reached yet
\* sends nothing.
C37_ListenersOnceThenOneMessage ==
  [][ /\ \A e \in DOMAIN media' :
           /\ media'[e].play <= 1 /\ media'[e].pause <= 1
           /\ media'[e].monitored <=> (media'[e].play = 1 /\ media'[e].pause = 1)
      /\ \A e \in DOMAIN media :
           /\ (media[e].paused /\ ~media'[e].paused) =>
                NewlySent = Sent("AUDIO_STARTED", IF media[e].monitored THEN 1 ELSE 0)
           /\ (~media[e].paused /\ media'[e].paused) =>
                NewlySent = Sent("AUDIO_STOPPED", IF media[e].monitored THEN 1 ELSE 0)
    ]_vars

\* an element that two rescans have passed over plays, and the last message
\* sent is its one AUDIO_STARTED
C37_Witness ==
  /\ Cardinality({i \in DOMAIN timers : timers[i].state = "fired"}) >= 2
  /\ \E e \in DOMAIN media : media[e].monitored /\ ~media[e].paused
  /\ toCoord # <<>>
  /\ toCoord[Len(toCoord)].type = "AUDIO_STARTED"

\* C38: the window holds at most one pending rescan timer, the one whose
\* handle audioChangeTimer keeps, set DebounceMs after the last mutation; the
\* step in which it fires comes DebounceMs or more after the last mutation,
\* rescans the page and leaves no timer pending and no handle; and a pending
\* timer leads to a state with no timer pending.
C38_DebounceOneRescan ==
  /\ [][ /\ Cardinality(PendingTimers') <= 1
         /\ \A i \in PendingTimers' :
              audioChangeTimer' = i /\ timers'[i].due = lastMutation' + DebounceMs
         /\ \A i \in PendingTimers :
              timers'[i].state = "fired" =>
                /\ now >= lastMutation + DebounceMs
                /\ PendingTimers' = {}
                /\ audioChangeTimer' = 0
                /\ \A e \in DOMAIN media' : media'[e].monitored
     ]_vars
  /\ (PendingTimers # {}) ~> (PendingTimers = {} /\ audioChangeTimer = 0)

\* after a burst of three mutations one rescan has run, the other two timers
\* were cleared, and no timer is pending
C38_Witness ==
  /\ Len(timers) = 3
  /\ timers[1].state = "cleared" /\ timers[2].state = "cleared" /\ timers[3].state = "fired"
  /\ audioChangeTimer = 0
  /\ \E e \in DOMAIN media : media[e].monitored

====
